---- MODULE Spec2Model ----
(***************************************************************************)
(* Model of the content-based recommender of the Sustainable Tourism       *)
(* Platform (src/modules/ai_recommendation.py): tokenizer, corpus          *)
(* builder, TF-IDF indexer, cosine-similarity query matcher and the        *)
(* category fallback.                                                      *)
(*                                                                         *)
(* Representation.                                                         *)
(*  - A text is a sequence of one-character strings; a token is a text.    *)
(*  - A Python dict that is iterated (the catalog, tf_vectors, doc_norms)  *)
(*    is a sequence of <<key, value>> pairs in insertion order; a dict     *)
(*    that is only looked up (idf, a vector, a Counter) is a function.     *)
(*  - Floats are fixed-point integers: idf, tf and vector entries carry    *)
(*    FixScale (1e-4) units, a similarity carries SimScale (1e-6) units,   *)
(*    a match_score is in tenths of a percent (90 is 900, 5.0 is 50).      *)
(*  - An optional catalog field is a record [kind, val]: kind "absent"     *)
(*    (key missing), "list"/"str" (the well-formed value) or "scalar"      *)
(*    (a present value that is not a sequence, such as None or a number).  *)
(***************************************************************************)
EXTENDS Integers, Sequences, FiniteSets, TLC

\* ------------------------------------------------------------------------
\* Characters and the tokenizer
\* ------------------------------------------------------------------------

LowerCase ==
    {"a","b","c","d","e","f","g","h","i","j","k","l","m",
     "n","o","p","q","r","s","t","u","v","w","x","y","z"}

Digits == {"0","1","2","3","4","5","6","7","8","9"}

Whitespace == {" ", "\t", "\n"}

\* str.lower() on the ASCII letters
UpperToLower ==
    [c \in {"A","B","C","D","E","F","G","H","I","J","K","L","M",
            "N","O","P","Q","R","S","T","U","V","W","X","Y","Z"} |->
       CASE c = "A" -> "a" [] c = "B" -> "b" [] c = "C" -> "c" [] c = "D" -> "d"
         [] c = "E" -> "e" [] c = "F" -> "f" [] c = "G" -> "g" [] c = "H" -> "h"
         [] c = "I" -> "i" [] c = "J" -> "j" [] c = "K" -> "k" [] c = "L" -> "l"
         [] c = "M" -> "m" [] c = "N" -> "n" [] c = "O" -> "o" [] c = "P" -> "p"
         [] c = "Q" -> "q" [] c = "R" -> "r" [] c = "S" -> "s" [] c = "T" -> "t"
         [] c = "U" -> "u" [] c = "V" -> "v" [] c = "W" -> "w" [] c = "X" -> "x"
         [] c = "Y" -> "y" [] c = "Z" -> "z"]

lower(text) ==
    [i \in 1..Len(text) |->
        IF text[i] \in DOMAIN UpperToLower THEN UpperToLower[text[i]] ELSE text[i]]

\* variant of sub_non_alnum: a removed character leaves a space behind
sub_non_alnum_to_space(text) ==
    [i \in 1..Len(text) |->
        IF text[i] \in LowerCase \cup Digits \cup Whitespace THEN text[i] ELSE " "]

\* re.sub(r'[^a-z0-9\s]', '', text)
RECURSIVE sub_non_alnum(_)
sub_non_alnum(text) ==
    IF text = <<>> THEN <<>>
    ELSE IF Head(text) \in LowerCase \cup Digits \cup Whitespace
         THEN <<Head(text)>> \o sub_non_alnum(Tail(text))
         ELSE sub_non_alnum(Tail(text))

\* str.split(): maximal runs of non-whitespace characters, in order
RECURSIVE split_from(_, _)
split_from(text, word) ==
    IF text = <<>>
    THEN IF word = <<>> THEN <<>> ELSE <<word>>
    ELSE IF Head(text) \in Whitespace
         THEN IF word = <<>> THEN split_from(Tail(text), <<>>)
              ELSE <<word>> \o split_from(Tail(text), <<>>)
         ELSE split_from(Tail(text), Append(word, Head(text)))

split(text) == split_from(text, <<>>)

stop_words ==
    { <<"t","h","e">>, <<"a">>, <<"a","n">>, <<"a","n","d">>, <<"o","r">>,
      <<"b","u","t">>, <<"i","n">>, <<"o","n">>, <<"a","t">>, <<"t","o">>,
      <<"f","o","r">>, <<"o","f">>, <<"w","i","t","h">>, <<"b","y">>,
      <<"i","s">>, <<"a","r","e">>, <<"w","a","s">>, <<"w","e","r","e">> }

_tokenize(text) ==
    SelectSeq(split(sub_non_alnum(lower(text))), LAMBDA w : w \notin stop_words)

\* ------------------------------------------------------------------------
\* Fixed-point arithmetic standing for Python floats
\* ------------------------------------------------------------------------

\* one unit of an idf, a tf or a vector entry is 1/FixScale
FixScale == 10000

\* decimal digits kept by a similarity (one unit is 10^-SimDigits)
SimDigits == 6

\* number of terms of the series used for math.log
LnTerms == 9

RECURSIVE Pow10(_)
Pow10(n) == IF n = 0 THEN 1 ELSE 10 * Pow10(n - 1)

SimScale == Pow10(SimDigits)

Range(s) == { s[i] : i \in DOMAIN s }

RECURSIVE SumOver(_, _)
SumOver(f, S) ==
    IF S = {} THEN 0
    ELSE LET x == CHOOSE y \in S : TRUE IN f[x] + SumOver(f, S \ {x})

\* sum(score ** 2 for score in vec.values())
SumSquares(vec) == SumOver([t \in DOMAIN vec |-> vec[t] * vec[t]], DOMAIN vec)

\* math.log(1 + n / c), in FixScale units, by ln x = 2 atanh((x-1)/(x+1))
RECURSIVE log_series(_, _, _)
log_series(term, z2, k) ==
    IF k > LnTerms THEN 0
    ELSE LET next == (term * z2) \div FixScale
         IN  next \div (2 * k + 1) + log_series(next, z2, k + 1)

log1p_ratio(n, c) ==
    LET z  == (n * FixScale) \div (n + 2 * c)
        z2 == (z * z) \div FixScale
    IN  2 * (z + log_series(z, z2, 1))

\* math.sqrt, rounded down
RECURSIVE sqrt_iter(_, _)
sqrt_iter(n, x) ==
    LET y == (x + n \div x) \div 2
    IN  IF y >= x THEN x ELSE sqrt_iter(n, y)

sqrt(n) == IF n = 0 THEN 0 ELSE sqrt_iter(n, n)

\* a / b to `digits` decimal places (long division, b > 0)
RECURSIVE div_digits(_, _, _, _)
div_digits(q, r, b, digits) ==
    IF digits = 0 THEN q
    ELSE div_digits(q * 10 + (r * 10) \div b, (r * 10) % b, b, digits - 1)

truediv(a, b) == div_digits(a \div b, a % b, b, SimDigits)

\* round(score * 100, 1), in tenths of a percent; ties to even
round_percent(score) ==
    LET unit == SimScale \div 1000
        q    == score \div unit
        r    == score % unit
    IN  IF 2 * r > unit \/ (2 * r = unit /\ q % 2 = 1) THEN q + 1 ELSE q

\* ------------------------------------------------------------------------
\* Corpus builder and indexer
\* ------------------------------------------------------------------------

\* " ".join(parts)
RECURSIVE join(_)
join(parts) ==
    IF parts = <<>> THEN <<>>
    ELSE IF Len(parts) = 1 THEN parts[1]
    ELSE parts[1] \o <<" ">> \o join(Tail(parts))

\* variant of text_parts: the name is appended once instead of twice
text_parts_name_once(data) ==
    <<data.name>>
    \o (IF data.type.kind = "list" THEN data.type.val \o data.type.val ELSE <<>>)
    \o (IF data.sustainability_features.kind = "list"
        THEN data.sustainability_features.val ELSE <<>>)
    \o <<IF data.description.kind = "absent" THEN <<>> ELSE data.description.val>>

\* variant of text_parts: the name is left out of the document
text_parts_without_name(data) ==
    (IF data.type.kind = "list" THEN data.type.val \o data.type.val ELSE <<>>)
    \o (IF data.sustainability_features.kind = "list"
        THEN data.sustainability_features.val ELSE <<>>)
    \o <<IF data.description.kind = "absent" THEN <<>> ELSE data.description.val>>

\* the text_parts of one catalog entry (loop body of _prepare_corpus)
text_parts(data) ==
    <<data.name, data.name>>
    \o (IF data.type.kind = "list" THEN data.type.val \o data.type.val ELSE <<>>)
    \o (IF data.sustainability_features.kind = "list"
        THEN data.sustainability_features.val ELSE <<>>)
    \o <<IF data.description.kind = "absent" THEN <<>> ELSE data.description.val>>

\* variant of _prepare_corpus: entries without a description are skipped
_prepare_corpus_skipping(dests) ==
    LET kept == SelectSeq(dests, LAMBDA p : p[2].description.kind # "absent")
    IN  [ corpus  |-> [i \in 1..Len(kept) |-> join(text_parts(kept[i][2]))],
          doc_ids |-> [i \in 1..Len(kept) |-> kept[i][1]] ]

\* _prepare_corpus: <<corpus, doc_ids>> appended in catalog iteration order
_prepare_corpus(dests) ==
    [ corpus  |-> [i \in 1..Len(dests) |-> join(text_parts(dests[i][2]))],
      doc_ids |-> [i \in 1..Len(dests) |-> dests[i][1]] ]

\* collections.Counter(tokens)
Counter(tokens) ==
    [t \in Range(tokens) |-> Cardinality({i \in DOMAIN tokens : tokens[i] = t})]

\* variant of compute_idf: df counts the occurrences of a term, not the
\* documents that hold it
compute_idf_counting_occurrences(crp) ==
    LET N      == Len(crp)
        tokens == [i \in 1..N |-> _tokenize(crp[i])]
        terms  == UNION { Range(tokens[i]) : i \in 1..N }
        df     == [t \in terms |->
                      SumOver([i \in 1..N |->
                                  Cardinality({k \in DOMAIN tokens[i] : tokens[i][k] = t})],
                              1..N)]
    IN  [t \in terms |-> log1p_ratio(N, df[t] + 1)]

\* variant of compute_idf: terms found in every document get no entry
compute_idf_dropping_ubiquitous(crp) ==
    LET N          == Len(crp)
        doc_vocabs == [i \in 1..N |-> Range(_tokenize(crp[i]))]
        terms      == UNION { doc_vocabs[i] : i \in 1..N }
        df         == [t \in terms |-> Cardinality({i \in 1..N : t \in doc_vocabs[i]})]
    IN  [t \in {u \in terms : df[u] < N} |-> log1p_ratio(N, df[t] + 1)]

\* steps 1 and 2 of _compute_tfidf: df over the token sets, then idf
compute_idf(crp) ==
    LET N          == Len(crp)
        doc_vocabs == [i \in 1..N |-> Range(_tokenize(crp[i]))]
        terms      == UNION { doc_vocabs[i] : i \in 1..N }
        df         == [t \in terms |-> Cardinality({i \in 1..N : t \in doc_vocabs[i]})]
    IN  [t \in terms |-> log1p_ratio(N, df[t] + 1)]

\* len(tokens) if tokens else 1
total_terms(tokens) == IF tokens # <<>> THEN Len(tokens) ELSE 1

\* variant of doc_vector: tf is divided by the number of distinct terms
doc_vector_distinct_total(doc_text, idf_table) ==
    LET tokens      == _tokenize(doc_text)
        term_counts == Counter(tokens)
    IN  [t \in DOMAIN term_counts |->
            LET tf == (term_counts[t] * FixScale) \div Cardinality(DOMAIN term_counts)
            IN  (tf * (IF t \in DOMAIN idf_table THEN idf_table[t] ELSE 0)) \div FixScale]

\* step 3 of _compute_tfidf for one document: vec[term] = tf * idf.get(term, 0)
doc_vector(doc_text, idf_table) ==
    LET tokens      == _tokenize(doc_text)
        term_counts == Counter(tokens)
    IN  [t \in DOMAIN term_counts |->
            LET tf == (term_counts[t] * FixScale) \div total_terms(tokens)
            IN  (tf * (IF t \in DOMAIN idf_table THEN idf_table[t] ELSE 0)) \div FixScale]

_compute_tfidf(crp, ids) ==
    LET table == compute_idf(crp)
    IN  [ idf        |-> table,
          tf_vectors |-> [i \in 1..Len(crp) |-> <<ids[i], doc_vector(crp[i], table)>>],
          doc_norms  |-> [i \in 1..Len(crp) |->
                             <<ids[i], sqrt(SumSquares(doc_vector(crp[i], table)))>>] ]

\* dict lookup d[key] on an insertion-ordered dict of <<key, value>> pairs
DictGet(d, key) == d[CHOOSE i \in DOMAIN d : d[i][1] = key][2]

\* ------------------------------------------------------------------------
\* Query matcher
\* ------------------------------------------------------------------------

\* variant of _vectorize_query: an out-of-vocabulary term gets an entry with
\* idf 1 (self.idf.get(term, 1))
_vectorize_query_keeping_unknown(query, idf_table) ==
    LET tokens      == _tokenize(query)
        term_counts == Counter(tokens)
    IN  [t \in DOMAIN term_counts |->
            LET tf == (term_counts[t] * FixScale) \div total_terms(tokens)
            IN  (tf * (IF t \in DOMAIN idf_table THEN idf_table[t] ELSE FixScale))
                    \div FixScale]

\* _vectorize_query: out-of-vocabulary terms get no entry
_vectorize_query(query, idf_table) ==
    LET tokens      == _tokenize(query)
        term_counts == Counter(tokens)
    IN  [t \in {u \in DOMAIN term_counts : u \in DOMAIN idf_table} |->
            LET tf == (term_counts[t] * FixScale) \div total_terms(tokens)
            IN  (tf * idf_table[t]) \div FixScale]

\* variant of dot_product: a query term missing from the document zeroes the sum
dot_product_all_terms(query_vec, dest_vec) ==
    IF DOMAIN query_vec \subseteq DOMAIN dest_vec
    THEN SumOver([t \in DOMAIN query_vec |-> query_vec[t] * dest_vec[t]], DOMAIN query_vec)
    ELSE 0

\* the inner loop of recommend: sum of q_score * dest_vec[term] over shared terms
dot_product(query_vec, dest_vec) ==
    LET shared == DOMAIN query_vec \cap DOMAIN dest_vec
    IN  SumOver([t \in shared |-> query_vec[t] * dest_vec[t]], shared)

\* marks a division whose divisor is zero (Python raises ZeroDivisionError)
ZeroDivision == 0 - 1

\* variant of similarity: the division is made whatever the document norm
similarity_unguarded(dot, query_norm, dest_norm) ==
    IF query_norm * dest_norm = 0 THEN ZeroDivision
    ELSE truediv(dot, query_norm * dest_norm)

\* similarity = dot_product / (query_norm * dest_norm) if dest_norm > 0 else 0
similarity(dot, query_norm, dest_norm) ==
    IF dest_norm > 0
    THEN IF query_norm * dest_norm = 0 THEN ZeroDivision
         ELSE truediv(dot, query_norm * dest_norm)
    ELSE 0

\* variant of score_list: scores.append sits in the loop over the query
\* terms, so a document is appended once per query term
RECURSIVE score_list_per_term(_, _, _, _)
score_list_per_term(query_vec, query_norm, vectors, norms) ==
    IF vectors = <<>> THEN <<>>
    ELSE LET pair == <<vectors[1][1],
                       similarity(dot_product(query_vec, vectors[1][2]), query_norm,
                                  DictGet(norms, vectors[1][1]))>>
         IN  [k \in 1..Cardinality(DOMAIN query_vec) |-> pair]
             \o score_list_per_term(query_vec, query_norm, Tail(vectors), norms)

\* the scores list, in tf_vectors iteration order
score_list(query_vec, query_norm, vectors, norms) ==
    [i \in DOMAIN vectors |->
        <<vectors[i][1],
          similarity(dot_product(query_vec, vectors[i][2]), query_norm,
                     DictGet(norms, vectors[i][1]))>>]

\* variant of insert_desc: equal keys end up in reverse order (an ascending
\* sort that is reversed afterwards)
insert_desc_reversing_ties(sorted, x) ==
    LET n == Cardinality({i \in DOMAIN sorted : sorted[i][2] > x[2]})
    IN  SubSeq(sorted, 1, n) \o <<x>> \o SubSeq(sorted, n + 1, Len(sorted))

\* list.sort(key=lambda x: x[1], reverse=True): stable, descending
insert_desc(sorted, x) ==
    LET n == Cardinality({i \in DOMAIN sorted : sorted[i][2] >= x[2]})
    IN  SubSeq(sorted, 1, n) \o <<x>> \o SubSeq(sorted, n + 1, Len(sorted))

RECURSIVE sort_from(_, _)
sort_from(sorted, rest) ==
    IF rest = <<>> THEN sorted
    ELSE sort_from(insert_desc(sorted, Head(rest)), Tail(rest))

\* variant of sort: ascending (reverse=True forgotten)
RECURSIVE sort_ascending(_)
sort_ascending(scores) ==
    IF scores = <<>> THEN <<>>
    ELSE LET rest == sort_ascending(Tail(scores))
             n    == Cardinality({i \in DOMAIN rest : rest[i][2] < Head(scores)[2]})
         IN  SubSeq(rest, 1, n) \o <<Head(scores)>> \o SubSeq(rest, n + 1, Len(rest))

sort(scores) == sort_from(<<>>, scores)

\* variant of slice: seq[:k + 1]
slice_one_more(seq, k) ==
    SubSeq(seq, 1, IF k + 1 < Len(seq) THEN (IF k + 1 > 0 THEN k + 1 ELSE 0) ELSE Len(seq))

\* seq[:k]
slice(seq, k) ==
    IF k >= 0 THEN SubSeq(seq, 1, IF k < Len(seq) THEN k ELSE Len(seq))
    ELSE SubSeq(seq, 1, IF Len(seq) + k > 0 THEN Len(seq) + k ELSE 0)

\* the 0.05 of `if score > 0.05`
threshold == (5 * SimScale) \div 100

\* variant of above_threshold: no minimum relevance
above_nothing(score) == score >= 0

above_threshold(score) == score > threshold

\* variant of recommend_record: display fields read from the first catalog entry
recommend_record_first_entry(dest_id, score, dests) ==
    [ id          |-> dest_id,
      name        |-> dests[1][2].name,
      match_score |-> round_percent(score),
      type        |-> dests[1][2].type,
      eco_score   |-> dests[1][2].eco_score,
      description |-> dests[1][2].description ]

\* the record appended to results by recommend
recommend_record(dest_id, score, dests) ==
    LET dest == DictGet(dests, dest_id)
    IN  [ id          |-> dest_id,
          name        |-> dest.name,
          match_score |-> round_percent(score),
          type        |-> dest.type,
          eco_score   |-> dest.eco_score,
          description |-> dest.description ]

\* dest['type'] or dest['description'] with the key missing
raises_KeyError(data) == data.type.kind = "absent" \/ data.description.kind = "absent"

\* the filter-and-format loop of recommend over scores[:top_k]
RECURSIVE format_results(_, _)
format_results(items, dests) ==
    IF items = <<>> THEN [status |-> "ok", value |-> <<>>]
    ELSE IF ~ above_threshold(Head(items)[2]) THEN format_results(Tail(items), dests)
    ELSE IF raises_KeyError(DictGet(dests, Head(items)[1]))
         THEN [status |-> "KeyError", value |-> <<>>]
    ELSE LET rest == format_results(Tail(items), dests)
         IN  IF rest.status # "ok" THEN rest
             ELSE [status |-> "ok",
                   value  |-> <<recommend_record(Head(items)[1], Head(items)[2], dests)>>
                              \o rest.value]

\* variant of no_signal: the zero-norm guard is missing
no_signal_unguarded(query_norm) == FALSE

\* if query_norm == 0: return []
no_signal(query_norm) == query_norm = 0

\* variant of recommend_outcome: a query without signal is rejected
recommend_outcome_rejecting(dests, idf_table, vectors, norms, query, top_k) ==
    LET query_vec  == _vectorize_query(query, idf_table)
        query_norm == sqrt(SumSquares(query_vec))
        scores     == score_list(query_vec, query_norm, vectors, norms)
    IN  IF query_norm = 0 THEN [status |-> "ValueError", value |-> <<>>]
        ELSE format_results(slice(sort(scores), top_k), dests)

\* what recommend(query, top_k) returns or raises
recommend_outcome(dests, idf_table, vectors, norms, query, top_k) ==
    LET query_vec  == _vectorize_query(query, idf_table)
        query_norm == sqrt(SumSquares(query_vec))
        scores     == score_list(query_vec, query_norm, vectors, norms)
    IN  IF no_signal(query_norm) THEN [status |-> "ok", value |-> <<>>]
        ELSE IF \E i \in DOMAIN scores : scores[i][2] = ZeroDivision
             THEN [status |-> "ZeroDivisionError", value |-> <<>>]
        ELSE format_results(slice(sort(scores), top_k), dests)

\* context_type in data.get('type', [])
has_type(context_type, data) ==
    data.type.kind = "list" /\ context_type \in Range(data.type.val)

suggestion_record(dest_id, data) ==
    [ id          |-> dest_id,
      name        |-> data.name,
      match_score |-> 900,
      type        |-> data.type,
      eco_score   |-> data.eco_score,
      description |-> data.description ]

\* the loop of get_suggestions over destinations.items()
RECURSIVE suggestion_loop(_, _)
suggestion_loop(context_type, dests) ==
    IF dests = <<>> THEN [status |-> "ok", value |-> <<>>]
    ELSE LET data == Head(dests)[2]
         IN  IF data.type.kind = "scalar" THEN [status |-> "TypeError", value |-> <<>>]
             ELSE IF ~ has_type(context_type, data)
                  THEN suggestion_loop(context_type, Tail(dests))
             ELSE IF raises_KeyError(data) THEN [status |-> "KeyError", value |-> <<>>]
             ELSE LET rest == suggestion_loop(context_type, Tail(dests))
                  IN  IF rest.status # "ok" THEN rest
                      ELSE [status |-> "ok",
                            value  |-> <<suggestion_record(Head(dests)[1], data)>>
                                       \o rest.value]

\* variant of get_suggestions_outcome: the result is not truncated
get_suggestions_outcome_untruncated(dests, context_type) ==
    suggestion_loop(context_type, dests)

\* what get_suggestions(context_type) returns or raises (return results[:3])
get_suggestions_outcome(dests, context_type) ==
    LET looped == suggestion_loop(context_type, dests)
    IN  IF looped.status # "ok" THEN looped
        ELSE [status |-> "ok", value |-> slice(looped.value, 3)]

\* ------------------------------------------------------------------------
\* Catalogs, queries and tags the model is run on
\* ------------------------------------------------------------------------

w_sea  == <<"s","e","a">>
w_reef == <<"r","e","e","f">>
w_hill == <<"h","i","l","l">>
w_ice  == <<"i","c","e">>
w_zzz  == <<"z","z","z">>
w_the  == <<"t","h","e">>
w_of   == <<"o","f">>

w_beach == <<"b","e","a","c","h">>
w_snorkeling == <<"s","n","o","r","k","e","l","i","n","g">>
w_coral == <<"c","o","r","a","l">>
w_mountain == <<"m","o","u","n","t","a","i","n">>
w_trekking == <<"t","r","e","k","k","i","n","g">>
w_snow == <<"s","n","o","w">>

RECURSIVE Repeat(_, _)
Repeat(w, n) == IF n = 0 THEN <<>> ELSE <<w>> \o Repeat(w, n - 1)

Absent       == [kind |-> "absent", val |-> <<>>]
Scalar       == [kind |-> "scalar", val |-> <<>>]
ListOf(v)    == [kind |-> "list", val |-> v]
StrOf(v)     == [kind |-> "str", val |-> v]

Entry(name, type, features, description, eco) ==
    [ name |-> name, type |-> type, sustainability_features |-> features,
      description |-> description, eco_score |-> eco ]

CatalogEmpty == <<>>

\* two clearly distinct documents, with capitals, punctuation and stop-words
CatalogTwoTopics ==
    << <<"bay",  Entry(<<"S","e","a"," ","B","a","y","!">>, ListOf(<<w_sea>>),
                       ListOf(<<w_reef>>), StrOf(join(<<w_the, w_sea, w_of, w_reef>>)), 9)>>,
       <<"peak", Entry(<<"H","i","l","l">>, ListOf(<<w_hill, w_ice>>),
                       ListOf(<<>>), StrOf(join(<<w_ice, w_hill>>)), 7)>> >>

\* a document whose similarity to QueryHillIce lies just above the threshold
CatalogNearThreshold ==
    << <<"d1", Entry(w_hill, ListOf(<<>>), ListOf(<<>>), StrOf(join(Repeat(w_sea, 6))), 5)>>,
       <<"d2", Entry(w_sea, ListOf(<<>>), ListOf(<<>>), StrOf(<<>>), 6)>>,
       <<"d3", Entry(w_ice, ListOf(<<>>), ListOf(<<>>), StrOf(<<>>), 7)>> >>

\* "z" and "a" tokenize to the same document; ids are not in alphabetical order
CatalogTies ==
    << <<"z", Entry(w_sea, ListOf(<<w_reef>>), ListOf(<<>>), StrOf(join(<<w_the, w_sea>>)), 3)>>,
       <<"m", Entry(w_hill, ListOf(<<w_reef>>), ListOf(<<>>), StrOf(w_sea), 4)>>,
       <<"a", Entry(w_sea, ListOf(<<w_reef>>), ListOf(<<>>), StrOf(<<"S","e","a","!">>), 5)>> >>

\* entries that lack optional fields, or whose tags are not a sequence
CatalogMissing ==
    << <<"full",   Entry(w_ice, ListOf(<<w_ice>>), Absent, StrOf(w_ice), 8)>>,
       <<"nodesc", Entry(w_sea, ListOf(<<w_sea>>), ListOf(<<w_reef>>), Absent, 6)>>,
       <<"notype", Entry(w_hill, Absent, Scalar, StrOf(w_hill), 4)>> >>

CatalogScalarType ==
    << <<"full",   Entry(w_ice, ListOf(<<w_ice>>), ListOf(<<>>), StrOf(w_ice), 8)>>,
       <<"scalar", Entry(w_reef, Scalar, ListOf(<<>>), StrOf(w_reef), 2)>> >>

\* five entries, four of them tagged "sea"; one has no tokens at all
CatalogFive ==
    << <<"c1", Entry(w_sea, ListOf(<<w_sea>>), ListOf(<<>>), StrOf(w_reef), 1)>>,
       <<"c2", Entry(<<"!">>, ListOf(<<>>), ListOf(<<>>), StrOf(w_the), 2)>>,
       <<"c3", Entry(w_hill, ListOf(<<w_hill, w_sea>>), ListOf(<<>>), StrOf(<<>>), 3)>>,
       <<"c4", Entry(w_reef, ListOf(<<join(<<w_sea, w_hill>>)>>), ListOf(<<>>), StrOf(w_sea), 4)>>,
       <<"c5", Entry(w_ice, ListOf(<<w_sea>>), ListOf(<<w_sea>>), StrOf(w_ice), 5)>>,
       <<"c6", Entry(w_sea, ListOf(<<w_ice, w_sea>>), ListOf(<<>>), StrOf(w_hill), 6)>> >>

\* the two-document example of the ordering property
CatalogBeachMountain ==
    << <<"beach",    Entry(w_beach, ListOf(<<w_snorkeling>>), ListOf(<<w_coral>>),
                           StrOf(join(<<w_beach, w_snorkeling, w_coral>>)), 8)>>,
       <<"mountain", Entry(w_mountain, ListOf(<<w_trekking>>), ListOf(<<w_snow>>),
                           StrOf(join(<<w_mountain, w_trekking, w_snow>>)), 7)>> >>

\* "twice" is "plain" with the term "sea" repeated once more in the name
CatalogNameRepeat ==
    << <<"plain", Entry(join(<<w_reef, w_sea>>), ListOf(<<w_hill>>), ListOf(<<>>),
                        StrOf(w_ice), 5)>>,
       <<"twice", Entry(join(<<w_reef, w_sea, w_sea>>), ListOf(<<w_hill>>), ListOf(<<>>),
                        StrOf(w_ice), 5)>> >>

\* as CatalogNameRepeat, but "sea" is the only token of both documents
CatalogOnlyTerm ==
    << <<"plain", Entry(w_sea, ListOf(<<>>), ListOf(<<>>), StrOf(<<>>), 5)>>,
       <<"twice", Entry(join(<<w_sea, w_sea>>), ListOf(<<>>), ListOf(<<>>), StrOf(<<>>), 5)>>,
       <<"other", Entry(w_hill, ListOf(<<>>), ListOf(<<>>), StrOf(<<>>), 5)>> >>

\* the first entry tokenizes to nothing: punctuation and a stop-word
CatalogBlankFirst ==
    << <<"blank", Entry(<<"!">>, ListOf(<<>>), ListOf(<<>>), StrOf(w_the), 2)>>,
       <<"shore", Entry(w_sea, ListOf(<<w_reef>>), ListOf(<<>>), StrOf(w_sea), 6)>> >>

Catalogs ==
    { CatalogEmpty, CatalogTwoTopics, CatalogNearThreshold, CatalogTies,
      CatalogMissing, CatalogScalarType, CatalogFive, CatalogBeachMountain,
      CatalogNameRepeat, CatalogOnlyTerm, CatalogBlankFirst }

QueryEmpty   == <<>>
QueryStop    == join(<<w_the, w_of>>)
QueryUnknown == w_zzz
QuerySea     == w_sea
QueryMixed   == <<"T","h","e"," ","S","E","A","!"," ","z","z","z">>
QueryHillIce == join(<<w_hill>> \o Repeat(w_ice, 8))
QueryReefIce == join(<<w_reef, w_ice, w_hill>>)

QuerySnorkeling == join(<<w_snorkeling, w_coral, w_reef>>)

Queries ==
    { QueryEmpty, QueryStop, QueryUnknown, QuerySea, QueryMixed, QueryHillIce,
      QueryReefIce, QuerySnorkeling }

Tags == { w_sea, w_hill, w_zzz }

\* largest top_k passed to recommend
MaxTopK == 4

TopKs == (0 - 1) .. MaxTopK

\* ------------------------------------------------------------------------
\* State and actions
\* ------------------------------------------------------------------------

VARIABLES
    destinations,   \* self.destinations: the catalog, as <<id, entry>> pairs
    corpus,         \* self.corpus
    doc_ids,        \* self.doc_ids
    idf,            \* self.idf
    tf_vectors,     \* self.tf_vectors, as <<id, vec>> pairs
    doc_norms,      \* self.doc_norms, as <<id, norm>> pairs
    pc,             \* "new" before __init__ has run, "ready" after
    result,         \* the last call made on the recommender and its outcome
    rebuilt,        \* a second recommender constructed from the same catalog
    threads,        \* the frame of the recommend call of each request thread
    app,            \* app.py: the ai_recommender handle, startup progress, last response
    site            \* the users table, the sessions, the clock and the last request

vars == <<destinations, corpus, doc_ids, idf, tf_vectors, doc_norms, pc, result, rebuilt, threads, app, site>>

\* state outside the recommender instance
outside == <<rebuilt, threads, app, site>>

index == <<destinations, corpus, doc_ids, idf, tf_vectors, doc_norms>>

NoCall ==
    [ op |-> "none", query |-> <<>>, top_k |-> 0, context_type |-> <<>>,
      status |-> "ok", value |-> <<>> ]

\* largest number of request threads
MaxThreads == 2

Threads == 1 .. MaxThreads

\* the local variables of recommend in a thread that has not called it
Idle ==
    [ pc |-> "idle", query |-> <<>>, top_k |-> 0, query_vec |-> <<>>, query_norm |-> 0,
      i |-> 0, scores |-> <<>>, status |-> "ok", value |-> <<>>, overlapped |-> FALSE ]

NoResponse ==
    [ op |-> "none", query |-> <<>>, via |-> "none", status |-> "ok", value |-> <<>> ]

\* app.py after `ai_recommender = None`, before the try block that builds it
NotStarted ==
    [ shape |-> "mapping", stage |-> "import", handle |-> "None", attempts |-> 0,
      reports |-> 0, response |-> NoResponse ]

\* the accounts a visitor can register; the username is the id and the identifier
Accounts == { "alice", "bob" }

Browsers == { "b1", "b2" }

\* SQL NULL in a DATETIME column
NullTime == 0 - 1

\* a row of the users table that has not been inserted
NoUser ==
    [ exists |-> FALSE, is_verified |-> FALSE, password_hash |-> <<>>,
      otp_code |-> "NULL", otp_expiry |-> NullTime, otp_issuer |-> "none",
      remember_token |-> 0 ]

\* a Flask session without user_id and without pending_login
NoSession == [ user_id |-> "none", pending_login |-> "none", remember_me |-> FALSE ]

\* the last call or request: what it was, how it ended, the account it named,
\* the OTP and the remember_token cookie it presented, the row it checked the OTP
\* against (for verify_signin: the row of the pending account) as it was before,
\* and the account held in the session's pending_login when it came
NoRequest ==
    [ op |-> "none", outcome |-> "none", account |-> "none", otp |-> "none",
      before |-> NoUser, token |-> <<0, "issued">>, pending |-> "none" ]

\* the site before any request: empty users table, fresh sessions, clock 0
NoSite ==
    [ users |-> [a \in Accounts |-> NoUser], sessions |-> [b \in Browsers |-> NoSession],
      now |-> 0, tokens |-> 0, revoked |-> {}, last |-> NoRequest ]

\* the second recommender before its construction
NotBuilt ==
    [ pc |-> "new", order |-> <<>>, idf |-> <<>>, tf_vectors |-> <<>>,
      doc_norms |-> <<>>, result |-> NoCall ]

\* the attributes as __init__ sets them before building the corpus
Init ==
    /\ destinations \in Catalogs
    /\ corpus = <<>>
    /\ doc_ids = <<>>
    /\ idf = <<>>
    /\ tf_vectors = <<>>
    /\ doc_norms = <<>>
    /\ pc = "new"
    /\ result = NoCall
    /\ rebuilt = NotBuilt
    /\ threads = [t \in Threads |-> Idle]
    /\ site = NoSite
    /\ app = NotStarted

\* AIRecommender(destinations_data): _prepare_corpus() then _compute_tfidf()
__init__ ==
    /\ pc = "new"
    /\ LET prepared == _prepare_corpus(destinations)
           computed == _compute_tfidf(prepared.corpus, prepared.doc_ids)
       IN  /\ corpus' = prepared.corpus
           /\ doc_ids' = prepared.doc_ids
           /\ idf' = computed.idf
           /\ tf_vectors' = computed.tf_vectors
           /\ doc_norms' = computed.doc_norms
    /\ pc' = "ready"
    /\ result' = [NoCall EXCEPT !.op = "__init__"]
    /\ UNCHANGED <<destinations, outside>>

\* variant of recommend: looking a query token up inserts it into self.idf
recommend_inserting_tokens(query, top_k) ==
    /\ pc = "ready"
    /\ LET out == recommend_outcome(destinations, idf, tf_vectors, doc_norms, query, top_k)
       IN  result' = [ op |-> "recommend", query |-> query, top_k |-> top_k,
                       context_type |-> <<>>, status |-> out.status, value |-> out.value ]
    /\ idf' = [t \in DOMAIN idf \cup Range(_tokenize(query)) |->
                  IF t \in DOMAIN idf THEN idf[t] ELSE 0]
    /\ UNCHANGED <<destinations, corpus, doc_ids, tf_vectors, doc_norms, pc, outside>>

recommend(query, top_k) ==
    /\ pc = "ready"
    /\ LET out == recommend_outcome(destinations, idf, tf_vectors, doc_norms, query, top_k)
       IN  result' = [ op |-> "recommend", query |-> query, top_k |-> top_k,
                       context_type |-> <<>>, status |-> out.status, value |-> out.value ]
    /\ UNCHANGED <<index, pc, outside>>

get_suggestions(context_type) ==
    /\ pc = "ready"
    /\ LET out == get_suggestions_outcome(destinations, context_type)
       IN  result' = [ op |-> "get_suggestions", query |-> <<>>, top_k |-> 0,
                       context_type |-> context_type, status |-> out.status,
                       value |-> out.value ]
    /\ UNCHANGED <<index, pc, outside>>

Next ==
    \/ __init__
    \/ \E query \in Queries, top_k \in TopKs : recommend(query, top_k)
    \/ \E context_type \in Tags : get_suggestions(context_type)

Spec == Init /\ [][Next]_vars

\* ------------------------------------------------------------------------
\* Reference notions used by the properties (stated independently of the
\* operators above)
\* ------------------------------------------------------------------------

Returned(op) == pc = "ready" /\ result.op = op /\ result.status = "ok"

Ids(records) == [i \in DOMAIN records |-> records[i].id]

PairIds(pairs) == [i \in DOMAIN pairs |-> pairs[i][1]]

\* position of a catalog key in catalog iteration order
CatalogPos(id) == CHOOSE i \in DOMAIN destinations : destinations[i][1] = id

\* the query vector and norm of the call recorded in result
CallVec == _vectorize_query(result.query, idf)

CallNorm == sqrt(SumSquares(CallVec))

\* cosine similarity of document id to the query of the recorded call
SimilarityOf(id) ==
    similarity(dot_product(CallVec, DictGet(tf_vectors, id)), CallNorm,
               DictGet(doc_norms, id))

\* documents by similarity descending, equal similarities in catalog order
RankOf(id) ==
    1 + Cardinality({ j \in DOMAIN destinations :
            \/ SimilarityOf(destinations[j][1]) > SimilarityOf(id)
            \/ /\ SimilarityOf(destinations[j][1]) = SimilarityOf(id)
               /\ j < CatalogPos(id) })

Ranking ==
    [r \in 1..Len(destinations) |->
        destinations[CHOOSE i \in DOMAIN destinations : RankOf(destinations[i][1]) = r][1]]

\* the ranking with every document of similarity <= 0.05 removed
RelevantRanking == SelectSeq(Ranking, LAMBDA id : SimilarityOf(id) * 100 > 5 * SimScale)

FirstN(seq, n) == SubSeq(seq, 1, IF n < Len(seq) THEN n ELSE Len(seq))

\* ------------------------------------------------------------------------
\* Properties
\* ------------------------------------------------------------------------

\* C1: for top_k >= 0, recommend returns exactly the first top_k documents of
\* the similarity ranking from which the documents with similarity <= 0.05
\* were removed first (filter, then truncate).
C1_FilterThenTruncate ==
    (Returned("recommend") /\ result.top_k >= 0)
        => Ids(result.value) = FirstN(RelevantRanking, result.top_k)

\* a call whose first top_k ranked documents include one below the threshold
C1_Witness ==
    /\ Returned("recommend") /\ CallNorm > 0
    /\ 0 < Len(result.value)
    /\ Len(result.value) < result.top_k
    /\ result.top_k <= Len(destinations)

\* C2 (as claimed): every record returned by recommend has match_score > 5.0.
C2_ScoreAboveFive ==
    Returned("recommend") =>
        \A i \in DOMAIN result.value : result.value[i].match_score > 50

\* C2 (amended): every record returned by recommend belongs to a document of
\* similarity > 0.05 and has match_score >= 5.0.
C2_SimilarityAboveThreshold ==
    Returned("recommend") =>
        \A i \in DOMAIN result.value :
            /\ SimilarityOf(result.value[i].id) * 100 > 5 * SimScale
            /\ result.value[i].match_score >= 50

\* a returned record whose similarity exceeds 0.05 and rounds to 5.0
C2_Witness ==
    /\ Returned("recommend")
    /\ \E i \in DOMAIN result.value : result.value[i].match_score = 50

\* C3: for top_k >= 0 the sequence returned by recommend has at most top_k
\* records.
C3_TopK ==
    (Returned("recommend") /\ result.top_k >= 0) => Len(result.value) <= result.top_k

\* a call that had more relevant documents than top_k
C3_Witness ==
    /\ Returned("recommend") /\ CallNorm > 0
    /\ result.top_k >= 0
    /\ Len(result.value) = result.top_k
    /\ Len(RelevantRanking) > result.top_k

\* a query none of whose tokens is in the idf table
NoSignal(query) == \A t \in Range(_tokenize(query)) : t \notin DOMAIN idf

\* C4: a query with no signal makes recommend return the empty sequence
\* without raising; out-of-vocabulary tokens get no entry in the query vector
\* and do not make the call fail.
C4_NoSignal ==
    (pc = "ready" /\ result.op = "recommend") =>
        /\ NoSignal(result.query) => (result.status = "ok" /\ result.value = <<>>)
        /\ DOMAIN CallVec = Range(_tokenize(result.query)) \cap DOMAIN idf
        /\ result.status # "ZeroDivisionError"

\* an out-of-vocabulary query against a non-empty index
C4_Witness ==
    /\ Returned("recommend")
    /\ idf # <<>>
    /\ _tokenize(result.query) # <<>>
    /\ NoSignal(result.query)
    /\ result.value = <<>>

\* C5: the returned sequence is ordered by similarity descending, and
\* documents of equal similarity appear in catalog iteration order.
C5_Ordered ==
    Returned("recommend") =>
        \A i, j \in DOMAIN result.value :
            i < j =>
                \/ SimilarityOf(result.value[i].id) > SimilarityOf(result.value[j].id)
                \/ /\ SimilarityOf(result.value[i].id) = SimilarityOf(result.value[j].id)
                   /\ CatalogPos(result.value[i].id) < CatalogPos(result.value[j].id)

\* two returned documents with exactly equal similarity
C5_Witness ==
    /\ Returned("recommend")
    /\ \E i, j \in DOMAIN result.value :
          /\ i < j
          /\ SimilarityOf(result.value[i].id) = SimilarityOf(result.value[j].id)

\* some catalog entry lacks an optional field or has tags that are no sequence
LacksOptional(data) ==
    \/ data.description.kind = "absent"
    \/ data.type.kind \in {"absent", "scalar"}
    \/ data.sustainability_features.kind \in {"absent", "scalar"}

\* C6: with catalog entries that lack optional fields, construction, recommend
\* and get_suggestions all complete without raising.
C6_NeverFatal ==
    (\E i \in DOMAIN destinations : LacksOptional(destinations[i][2]))
        => result.status = "ok"

\* C7: a recommender built from the empty catalog has an empty idf table,
\* no document vectors and no norms, and every recommend call on it returns
\* the empty sequence without failing.
C7_EmptyCatalog ==
    (pc = "ready" /\ destinations = <<>>) =>
        /\ idf = <<>> /\ tf_vectors = <<>> /\ doc_norms = <<>>
        /\ corpus = <<>> /\ doc_ids = <<>>
        /\ result.status = "ok"
        /\ result.op = "recommend" => result.value = <<>>

\* a recommend call with a non-empty query on the empty catalog
C7_Witness ==
    /\ Returned("recommend")
    /\ destinations = <<>>
    /\ _tokenize(result.query) # <<>>
    /\ result.top_k > 0

\* catalog entries whose tag sequence contains the tag, in catalog order
Tagged(tag) ==
    SelectSeq(destinations,
              LAMBDA p : p[2].type.kind = "list"
                         /\ \E k \in DOMAIN p[2].type.val : p[2].type.val[k] = tag)

\* C8: get_suggestions(tag) returns the first three catalog entries, in
\* catalog order, whose tag sequence contains tag, each with match_score 90;
\* the result is determined by the catalog and the tag alone.
C8_Suggestions ==
    Returned("get_suggestions") =>
        /\ Ids(result.value) = PairIds(FirstN(Tagged(result.context_type), 3))
        /\ \A i \in DOMAIN result.value : result.value[i].match_score = 900

\* a tag carried by more than three entries
C8_Witness ==
    /\ Returned("get_suggestions")
    /\ Len(result.value) = 3
    /\ Len(Tagged(result.context_type)) > 3

\* C9: every record returned by recommend carries a catalog id with that
\* entry's own name, tags, eco score and description, and a match_score equal
\* to the similarity times 100 rounded to one decimal.
C9_RecordFields ==
    Returned("recommend") =>
        \A i \in DOMAIN result.value :
            LET rec == result.value[i]
                unit == SimScale \div 1000
            IN  /\ \E k \in DOMAIN destinations : destinations[k][1] = rec.id
                /\ rec.name = destinations[CatalogPos(rec.id)][2].name
                /\ rec.type = destinations[CatalogPos(rec.id)][2].type
                /\ rec.eco_score = destinations[CatalogPos(rec.id)][2].eco_score
                /\ rec.description = destinations[CatalogPos(rec.id)][2].description
                /\ 2 * (rec.match_score * unit - SimilarityOf(rec.id)) <= unit
                /\ 2 * (SimilarityOf(rec.id) - rec.match_score * unit) <= unit

\* a result with records of two entries that differ in every display field
C9_Witness ==
    /\ Returned("recommend")
    /\ \E i, j \in DOMAIN result.value :
          /\ result.value[i].name # result.value[j].name
          /\ result.value[i].eco_score # result.value[j].eco_score
          /\ result.value[i].match_score # result.value[j].match_score

\* C10: once the recommender is constructed, no recommend or get_suggestions
\* call changes the catalog, the corpus, the document ids, the idf table, the
\* document vectors or the norms.
C10_NoSideEffects == [][pc = "ready" => UNCHANGED index]_vars

\* a call made on a non-empty index with a query holding an unknown token
C10_Witness ==
    /\ Returned("recommend")
    /\ idf # <<>>
    /\ \E t \in Range(_tokenize(result.query)) : t \notin DOMAIN idf
    /\ result.value # <<>>

\* number of occurrences of token t in the tokens of a text
Occ(t, text) ==
    Cardinality({k \in DOMAIN _tokenize(text) : _tokenize(text)[k] = t})

\* occurrences of t in a field holding a list of strings (0 when it holds none)
OccList(t, field) ==
    IF field.kind = "list"
    THEN SumOver([k \in DOMAIN field.val |-> Occ(t, field.val[k])], DOMAIN field.val)
    ELSE 0

OccStr(t, field) == IF field.kind = "str" THEN Occ(t, field.val) ELSE 0

FieldTokens(field) ==
    IF field.kind = "list" THEN UNION { Range(_tokenize(field.val[k])) : k \in DOMAIN field.val }
    ELSE IF field.kind = "str" THEN Range(_tokenize(field.val))
    ELSE {}

EntryTokens(data) ==
    Range(_tokenize(data.name)) \cup FieldTokens(data.type)
        \cup FieldTokens(data.sustainability_features) \cup FieldTokens(data.description)

Shares(id) ==
    Range(_tokenize(result.query)) \cap Range(_tokenize(corpus[CatalogPos(id)])) # {}

\* C16: a document sharing a token with the query has a strictly larger
\* similarity, and ranks strictly above, every document sharing none; a
\* document sharing none has similarity 0 and is never returned; the beach
\* document is ranked above the mountain document for "snorkeling coral reef".
C16_SharedTokenRanksAbove ==
    (pc = "ready" /\ result.op = "recommend") =>
        /\ \A i, j \in DOMAIN destinations :
              LET a == destinations[i][1]
                  b == destinations[j][1]
              IN  (Shares(a) /\ ~ Shares(b)) =>
                      /\ SimilarityOf(a) > SimilarityOf(b)
                      /\ SimilarityOf(b) = 0
                      /\ RankOf(a) < RankOf(b)
        /\ \A k \in DOMAIN result.value : Shares(result.value[k].id)
        /\ (destinations = CatalogBeachMountain /\ result.query = QuerySnorkeling
                /\ result.top_k > 0)
              => (result.status = "ok" /\ Ids(result.value) = <<"beach">>)

\* a query sharing one of its several tokens with some documents and none
\* with others
C16_Witness ==
    /\ Returned("recommend")
    /\ Cardinality(DOMAIN CallVec) > 1
    /\ \E i, j \in DOMAIN destinations :
          /\ Shares(destinations[i][1])
          /\ ~ (DOMAIN CallVec \subseteq Range(_tokenize(corpus[i])))
          /\ ~ Shares(destinations[j][1])
          /\ i > j

\* entry j is entry i with token t repeated some more times in the name
NameRepeats(i, j, t) ==
    LET a == destinations[i][2]
        b == destinations[j][2]
    IN  /\ i # j
        /\ a.type = b.type
        /\ a.sustainability_features = b.sustainability_features
        /\ a.description = b.description
        /\ a.eco_score = b.eco_score
        /\ Occ(t, b.name) > Occ(t, a.name)
        /\ \A u \in (Range(_tokenize(a.name)) \cup Range(_tokenize(b.name))) \ {t} :
              Occ(u, b.name) = Occ(u, a.name)

\* C17 (as claimed): of two entries identical but for the query term repeated
\* in the name of one, the repeating one ranks strictly higher for that query.
C17_NameRepeatRanksHigher ==
    (pc = "ready" /\ result.op = "recommend" /\ Len(_tokenize(result.query)) = 1) =>
        \A i, j \in DOMAIN destinations :
            NameRepeats(i, j, _tokenize(result.query)[1])
                => RankOf(destinations[j][1]) < RankOf(destinations[i][1])

\* C17 (amended): the same, for entries whose document holds at least one
\* token other than the query term; the repeating entry then has the strictly
\* larger similarity.
C17_NameRepeatWithOtherTokens ==
    (pc = "ready" /\ result.op = "recommend" /\ Len(_tokenize(result.query)) = 1) =>
        \A i, j \in DOMAIN destinations :
            LET t == _tokenize(result.query)[1]
            IN  (NameRepeats(i, j, t) /\ Range(_tokenize(corpus[i])) \ {t} # {})
                    => /\ SimilarityOf(destinations[j][1]) > SimilarityOf(destinations[i][1])
                       /\ RankOf(destinations[j][1]) < RankOf(destinations[i][1])

\* the repeating entry comes later in the catalog and is returned first
C17_Witness ==
    /\ Returned("recommend")
    /\ Len(_tokenize(result.query)) = 1
    /\ \E i, j \in DOMAIN destinations :
          /\ i < j
          /\ NameRepeats(i, j, _tokenize(result.query)[1])
          /\ Range(_tokenize(corpus[i])) \ {_tokenize(result.query)[1]} # {}
          /\ Len(result.value) >= 2
          /\ result.value[1].id = destinations[j][1]
          /\ result.value[2].id = destinations[i][1]

KeySet(d) == { d[i][1] : i \in DOMAIN d }

\* C19: after construction doc_ids is the catalog's key sequence, the corpus
\* has one document per entry at the entry's position, and the vector and norm
\* maps have exactly the catalog's keys.
C19_OneDocumentPerEntry ==
    pc = "ready" =>
        /\ doc_ids = PairIds(destinations)
        /\ Cardinality(Range(doc_ids)) = Len(destinations)
        /\ Len(corpus) = Len(destinations)
        /\ \A i \in DOMAIN destinations :
              SubSeq(corpus[i], 1, Len(destinations[i][2].name)) = destinations[i][2].name
        /\ Len(tf_vectors) = Len(destinations)
        /\ Len(doc_norms) = Len(destinations)
        /\ KeySet(tf_vectors) = KeySet(destinations)
        /\ KeySet(doc_norms) = KeySet(destinations)

\* an index built from a catalog with an entry that lacks its description
C19_Witness ==
    /\ pc = "ready"
    /\ Len(destinations) >= 3
    /\ \E i \in DOMAIN destinations : destinations[i][2].description.kind = "absent"

\* C20: after construction the idf table has an entry for exactly the tokens
\* that occur in some document, so no document-vector entry falls back to 0.
C20_IdfVocabulary ==
    pc = "ready" =>
        /\ DOMAIN idf = UNION { Range(_tokenize(corpus[i])) : i \in DOMAIN corpus }
        /\ \A i \in DOMAIN tf_vectors :
              /\ DOMAIN tf_vectors[i][2] \subseteq DOMAIN idf
              /\ DOMAIN tf_vectors[i][2] = Range(_tokenize(corpus[i]))
              /\ \A t \in DOMAIN tf_vectors[i][2] : tf_vectors[i][2][t] > 0

\* an index with a token that occurs in every one of several documents
C20_Witness ==
    /\ pc = "ready"
    /\ Len(corpus) >= 2
    /\ \E t \in DOMAIN idf : \A i \in DOMAIN corpus : t \in Range(_tokenize(corpus[i]))

\* ------------------------------------------------------------------------
\* The tokenizer on its own
\* ------------------------------------------------------------------------

\* longest text given to _tokenize
MaxTextLen == 3

\* a stop-word letter, a second letter, a capital, a digit, whitespace and
\* punctuation
TextChars == {"a", "n", "A", "1", " ", "!"}

TextHimalayan == <<"T","h","e"," ","H","i","m","a","l","a","y","a","n"," ","T","r","e","k","!","!">>

Texts == UNION { [1..n -> TextChars] : n \in 0..MaxTextLen } \cup {TextHimalayan}

InitTokenize ==
    /\ destinations = <<>>
    /\ corpus = <<>>
    /\ doc_ids = <<>>
    /\ idf = <<>>
    /\ tf_vectors = <<>>
    /\ doc_norms = <<>>
    /\ pc = "new"
    /\ result = NoCall
    /\ rebuilt = NotBuilt
    /\ threads = [t \in Threads |-> Idle]
    /\ site = NoSite
    /\ app = NotStarted

\* one call of _tokenize(text); result.query holds the text, result.value the tokens
tokenize_call(text) ==
    /\ result' = [NoCall EXCEPT !.op = "_tokenize", !.query = text,
                                !.value = _tokenize(text)]
    /\ UNCHANGED <<index, pc, outside>>

NextTokenize == \E text \in Texts : tokenize_call(text)

SpecTokenize == InitTokenize /\ [][NextTokenize]_vars

\* the text lowercased, with every character outside [a-z0-9\s] deleted
Cleaned(text) ==
    SelectSeq([i \in DOMAIN text |->
                  IF text[i] \in DOMAIN UpperToLower THEN UpperToLower[text[i]] ELSE text[i]],
              LAMBDA c : c \in LowerCase \cup Digits \cup Whitespace)

\* positions at which a maximal run of non-whitespace characters starts
RunStarts(c) ==
    { i \in DOMAIN c : c[i] \notin Whitespace /\ (i = 1 \/ c[i - 1] \in Whitespace) }

RunEnd(c, i) ==
    CHOOSE j \in i..Len(c) :
        /\ \A k \in i..j : c[k] \notin Whitespace
        /\ j = Len(c) \/ c[j + 1] \in Whitespace

\* the maximal runs of non-whitespace characters of c, in order
Runs(c) ==
    [n \in 1..Cardinality(RunStarts(c)) |->
        LET i == CHOOSE m \in RunStarts(c) :
                    Cardinality({x \in RunStarts(c) : x < m}) = n - 1
        IN  SubSeq(c, i, RunEnd(c, i))]

TheStopWords ==
    { <<"t","h","e">>, <<"a">>, <<"a","n">>, <<"a","n","d">>, <<"o","r">>,
      <<"b","u","t">>, <<"i","n">>, <<"o","n">>, <<"a","t">>, <<"t","o">>,
      <<"f","o","r">>, <<"o","f">>, <<"w","i","t","h">>, <<"b","y">>,
      <<"i","s">>, <<"a","r","e">>, <<"w","a","s">>, <<"w","e","r","e">> }

\* C14: _tokenize returns the whitespace-separated words of the lowercased
\* text with every character outside [a-z0-9\s] deleted, in order and without
\* the 18 stop-words; no token is empty, holds another character or is a
\* stop-word; the empty text gives no token; "The Himalayan Trek!!" gives
\* himalayan, trek.
C14_Tokenize ==
    result.op = "_tokenize" =>
        /\ result.value = SelectSeq(Runs(Cleaned(result.query)),
                                    LAMBDA w : w \notin TheStopWords)
        /\ \A k \in DOMAIN result.value :
              /\ result.value[k] # <<>>
              /\ Range(result.value[k]) \subseteq LowerCase \cup Digits
              /\ result.value[k] \notin TheStopWords
        /\ Cardinality(TheStopWords) = 18
        /\ result.query = <<>> => result.value = <<>>
        /\ result.query = TextHimalayan
              => result.value = << <<"h","i","m","a","l","a","y","a","n">>, <<"t","r","e","k">> >>

\* a text whose punctuation sits inside a word and which loses a stop-word
C14_Witness ==
    /\ result.op = "_tokenize"
    /\ \E i \in DOMAIN result.query :
          /\ 1 < i /\ i < Len(result.query)
          /\ result.query[i] = "!"
          /\ result.query[i - 1] \notin {" ", "!"}
          /\ result.query[i + 1] \notin {" ", "!"}
    /\ Len(result.value) = 1
    /\ Len(result.value[1]) = 2

\* the example of the tokenizer invariant
C14_WitnessExample ==
    /\ result.op = "_tokenize"
    /\ result.query = TextHimalayan
    /\ Len(result.value) = 2

\* ------------------------------------------------------------------------
\* Two recommenders built from one catalog
\* ------------------------------------------------------------------------

\* a set of strings is iterated in an order that depends on the hash seed of
\* the process; seed k stands for the k-th permutation of the vocabulary
MaxHashSeed == 5

HashSeeds == 0 .. MaxHashSeed

RECURSIVE first_seen(_, _)
first_seen(tokens, seen) ==
    IF tokens = <<>> THEN seen
    ELSE first_seen(Tail(tokens),
                    IF Head(tokens) \in Range(seen) THEN seen
                    ELSE Append(seen, Head(tokens)))

\* the tokens of all documents, in corpus order
RECURSIVE corpus_tokens(_)
corpus_tokens(crp) ==
    IF crp = <<>> THEN <<>> ELSE _tokenize(Head(crp)) \o corpus_tokens(Tail(crp))

RECURSIVE permutation(_, _)
permutation(terms, k) ==
    IF terms = <<>> THEN <<>>
    ELSE LET i == (k % Len(terms)) + 1
         IN  <<terms[i]>>
             \o permutation(SubSeq(terms, 1, i - 1) \o SubSeq(terms, i + 1, Len(terms)),
                            k \div Len(terms))

\* the order in which a process with this hash seed iterates the vocabulary
hash_order(crp, seed) == permutation(first_seen(corpus_tokens(crp), <<>>), seed)

\* iteration of set(tokens)
set_iter(tokens, order) == SelectSeq(order, LAMBDA t : t \in Range(tokens))

\* df.update(tokens) on an insertion-ordered Counter of <<term, count>> pairs
RECURSIVE df_update(_, _)
df_update(df, tokens) ==
    IF tokens = <<>> THEN df
    ELSE LET t == Head(tokens)
         IN  df_update(IF \E i \in DOMAIN df : df[i][1] = t
                       THEN [i \in DOMAIN df |->
                                IF df[i][1] = t THEN <<t, df[i][2] + 1>> ELSE df[i]]
                       ELSE Append(df, <<t, 1>>),
                       Tail(tokens))

\* step 1 of _compute_tfidf: the loop over self.corpus
RECURSIVE df_loop(_, _, _)
df_loop(crp, order, df) ==
    IF crp = <<>> THEN df
    ELSE df_loop(Tail(crp), order, df_update(df, set_iter(_tokenize(Head(crp)), order)))

\* variant of idf_from_df: the comprehension enumerates df and takes the
\* position of a term for its count
idf_from_df_enumerated(df, N) ==
    [i \in DOMAIN df |-> <<df[i][1], log1p_ratio(N, (i - 1) + 1)>>]

\* step 2 of _compute_tfidf: {term: log(1 + N / (count + 1)) for term, count in df.items()}
idf_from_df(df, N) ==
    [i \in DOMAIN df |-> <<df[i][1], log1p_ratio(N, df[i][2] + 1)>>]

\* an insertion-ordered dict read as a mapping (dict equality and lookup
\* do not see the insertion order)
mapping(d) == [key \in { d[i][1] : i \in DOMAIN d } |-> DictGet(d, key)]

\* _compute_tfidf with the iteration order of the token sets made explicit
_compute_tfidf_ordered(crp, ids, order) ==
    LET pairs == idf_from_df(df_loop(crp, order, <<>>), Len(crp))
        table == mapping(pairs)
    IN  [ idf        |-> pairs,
          tf_vectors |-> [i \in 1..Len(crp) |-> <<ids[i], doc_vector(crp[i], table)>>],
          doc_norms  |-> [i \in 1..Len(crp) |->
                             <<ids[i], sqrt(SumSquares(doc_vector(crp[i], table)))>>] ]

\* AIRecommender(destinations_data) a second time, in a process with hash seed `seed`
rebuild(seed) ==
    /\ rebuilt.pc = "new"
    /\ LET prepared == _prepare_corpus(destinations)
           order    == hash_order(prepared.corpus, seed)
           computed == _compute_tfidf_ordered(prepared.corpus, prepared.doc_ids, order)
       IN  rebuilt' = [ pc |-> "ready", order |-> order, idf |-> computed.idf,
                        tf_vectors |-> computed.tf_vectors,
                        doc_norms |-> computed.doc_norms,
                        result |-> [NoCall EXCEPT !.op = "__init__"] ]
    /\ UNCHANGED <<index, pc, result, threads, app, site>>

\* recommend(query, top_k) on the first recommender and on the second
recommend_both(query, top_k) ==
    /\ pc = "ready"
    /\ rebuilt.pc = "ready"
    /\ LET out == recommend_outcome(destinations, idf, tf_vectors, doc_norms, query, top_k)
           again == recommend_outcome(destinations, mapping(rebuilt.idf), rebuilt.tf_vectors,
                                      rebuilt.doc_norms, query, top_k)
       IN  /\ result' = [ op |-> "recommend", query |-> query, top_k |-> top_k,
                          context_type |-> <<>>, status |-> out.status,
                          value |-> out.value ]
           /\ rebuilt' = [rebuilt EXCEPT !.result =
                            [ op |-> "recommend", query |-> query, top_k |-> top_k,
                              context_type |-> <<>>, status |-> again.status,
                              value |-> again.value ]]
    /\ UNCHANGED <<index, pc, threads, app, site>>

NextRebuild ==
    \/ __init__
    \/ \E seed \in HashSeeds : rebuild(seed)
    \/ \E query \in Queries, top_k \in TopKs : recommend_both(query, top_k)

SpecRebuild == Init /\ [][NextRebuild]_vars

\* C12: two recommenders built from the same catalog, whatever the order in
\* which each build iterated its token sets, hold the same idf table, the
\* same document vectors and the same norms, and the same query with the
\* same top_k gets the same result sequence (or the same error) from both.
C12_Deterministic ==
    (pc = "ready" /\ rebuilt.pc = "ready") =>
        /\ { rebuilt.idf[i][1] : i \in DOMAIN rebuilt.idf } = DOMAIN idf
        /\ \A i \in DOMAIN rebuilt.idf : rebuilt.idf[i][2] = idf[rebuilt.idf[i][1]]
        /\ \A i, j \in DOMAIN rebuilt.idf : rebuilt.idf[i][1] = rebuilt.idf[j][1] => i = j
        /\ rebuilt.tf_vectors = tf_vectors
        /\ rebuilt.doc_norms = doc_norms
        /\ (/\ result.op = "recommend"
            /\ rebuilt.result.op = "recommend"
            /\ rebuilt.result.query = result.query
            /\ rebuilt.result.top_k = result.top_k)
              => (/\ rebuilt.result.status = result.status
                  /\ rebuilt.result.value = result.value)

\* the second build iterated the vocabulary in another order than the corpus
\* gives and filled its idf table in another order, not all idf values are
\* equal, and a query got two or more results from both recommenders
C12_Witness ==
    /\ pc = "ready"
    /\ rebuilt.pc = "ready"
    /\ rebuilt.order # first_seen(corpus_tokens(corpus), <<>>)
    /\ [i \in DOMAIN rebuilt.idf |-> rebuilt.idf[i][1]] # first_seen(corpus_tokens(corpus), <<>>)
    /\ \E i, j \in DOMAIN rebuilt.idf : rebuilt.idf[i][2] # rebuilt.idf[j][2]
    /\ result.op = "recommend"
    /\ rebuilt.result.op = "recommend"
    /\ result.status = "ok"
    /\ Len(result.value) >= 2
    /\ rebuilt.result.value = result.value

\* ------------------------------------------------------------------------
\* Concurrent recommend calls on one recommender
\* ------------------------------------------------------------------------

ConcurrentCatalogs == { CatalogTies, CatalogMissing }

ConcurrentQueries == { QuerySea, QueryReefIce, QueryUnknown }

ConcurrentTopKs == { 2 }

InitConcurrent == Init /\ destinations \in ConcurrentCatalogs

InProgress(t) == threads[t].pc \in {"scoring", "sorted"}

\* recommend up to `scores = []`: the query vector, its norm, the zero-norm return
recommend_enter(t, query, top_k) ==
    /\ pc = "ready"
    /\ threads[t].pc \in {"idle", "returned"}
    /\ LET query_vec  == _vectorize_query(query, idf)
           query_norm == sqrt(SumSquares(query_vec))
           meets      == \E u \in Threads \ {t} : InProgress(u)
           frame      == [Idle EXCEPT !.query = query, !.top_k = top_k,
                                      !.query_vec = query_vec, !.query_norm = query_norm,
                                      !.overlapped = meets,
                                      !.pc = IF no_signal(query_norm) THEN "returned"
                                             ELSE "scoring"]
       IN  threads' = [u \in Threads |->
                          IF u = t THEN frame
                          ELSE IF InProgress(u) THEN [threads[u] EXCEPT !.overlapped = TRUE]
                          ELSE threads[u]]
    /\ UNCHANGED <<index, pc, result, rebuilt, app, site>>

\* the (dest_id, similarity) of the next iteration over self.tf_vectors
next_score(frame) ==
    LET pair == tf_vectors[frame.i + 1]
    IN  <<pair[1],
          similarity(dot_product(frame.query_vec, pair[2]), frame.query_norm,
                     DictGet(doc_norms, pair[1]))>>

\* variant of recommend_score: the scores list is an attribute of the
\* recommender, so the score is appended for every call in its loop
recommend_score_shared(t) ==
    /\ threads[t].pc = "scoring"
    /\ threads[t].i < Len(tf_vectors)
    /\ LET s == next_score(threads[t])
       IN  threads' = [u \in Threads |->
                          IF u = t
                          THEN IF s[2] = ZeroDivision
                               THEN [threads[u] EXCEPT !.pc = "returned",
                                                       !.status = "ZeroDivisionError"]
                               ELSE [threads[u] EXCEPT !.i = @ + 1, !.scores = Append(@, s)]
                          ELSE IF threads[u].pc = "scoring"
                               THEN [threads[u] EXCEPT !.scores = Append(@, s)]
                               ELSE threads[u]]
    /\ UNCHANGED <<index, pc, result, rebuilt, app, site>>

\* one iteration of the loop over self.tf_vectors
recommend_score(t) ==
    /\ threads[t].pc = "scoring"
    /\ threads[t].i < Len(tf_vectors)
    /\ LET s == next_score(threads[t])
       IN  threads' = [threads EXCEPT ![t] =
                          IF s[2] = ZeroDivision
                          THEN [@ EXCEPT !.pc = "returned", !.status = "ZeroDivisionError"]
                          ELSE [@ EXCEPT !.i = @ + 1, !.scores = Append(@, s)]]
    /\ UNCHANGED <<index, pc, result, rebuilt, app, site>>

\* scores.sort(key=lambda x: x[1], reverse=True)
recommend_sort(t) ==
    /\ threads[t].pc = "scoring"
    /\ threads[t].i = Len(tf_vectors)
    /\ threads' = [threads EXCEPT ![t] = [@ EXCEPT !.pc = "sorted", !.scores = sort(@)]]
    /\ UNCHANGED <<index, pc, result, rebuilt, app, site>>

\* the filter-and-format loop and the return
recommend_return(t) ==
    /\ threads[t].pc = "sorted"
    /\ LET out == format_results(slice(threads[t].scores, threads[t].top_k), destinations)
       IN  threads' = [threads EXCEPT ![t] =
                          [@ EXCEPT !.pc = "returned", !.status = out.status,
                                    !.value = out.value]]
    /\ UNCHANGED <<index, pc, result, rebuilt, app, site>>

NextConcurrent ==
    \/ __init__
    \/ \E t \in Threads, query \in ConcurrentQueries, top_k \in ConcurrentTopKs :
          recommend_enter(t, query, top_k)
    \/ \E t \in Threads : recommend_score(t)
    \/ \E t \in Threads : recommend_sort(t)
    \/ \E t \in Threads : recommend_return(t)

SpecConcurrent == InitConcurrent /\ [][NextConcurrent]_vars

\* C11: however the steps of concurrent recommend calls interleave, a call
\* that has returned holds the result (or the error) the same call gives when
\* it runs alone on the recommender, and the index is still the one that
\* construction built from the catalog.
C11_Isolated ==
    pc = "ready" =>
        /\ \A t \in Threads :
              threads[t].pc = "returned" =>
                  LET alone == recommend_outcome(destinations, idf, tf_vectors, doc_norms,
                                                 threads[t].query, threads[t].top_k)
                  IN  /\ threads[t].status = alone.status
                      /\ threads[t].value = alone.value
        /\ LET prepared == _prepare_corpus(destinations)
               computed == _compute_tfidf(prepared.corpus, prepared.doc_ids)
           IN  /\ corpus = prepared.corpus
               /\ doc_ids = prepared.doc_ids
               /\ idf = computed.idf
               /\ tf_vectors = computed.tf_vectors
               /\ doc_norms = computed.doc_norms

\* two calls with different queries that ran while the other was in its
\* loop have both returned, with different non-empty results
C11_Witness ==
    \E t, u \in Threads :
        /\ t # u
        /\ threads[t].pc = "returned" /\ threads[u].pc = "returned"
        /\ threads[t].overlapped /\ threads[u].overlapped
        /\ threads[t].query # threads[u].query
        /\ threads[t].status = "ok" /\ threads[u].status = "ok"
        /\ threads[t].value # <<>> /\ threads[u].value # <<>>
        /\ threads[t].value # threads[u].value

\* ------------------------------------------------------------------------
\* app.py: construction at import time and the /api/ai-recommend handler
\* ------------------------------------------------------------------------

\* the default of recommend's top_k, which the handler does not override
DefaultTopK == 3

\* the catalog is a mapping of id to entry, or an object without items()
InitApp ==
    /\ corpus = <<>>
    /\ doc_ids = <<>>
    /\ idf = <<>>
    /\ tf_vectors = <<>>
    /\ doc_norms = <<>>
    /\ pc = "new"
    /\ result = NoCall
    /\ rebuilt = NotBuilt
    /\ threads = [t \in Threads |-> Idle]
    /\ site = NoSite
    /\ \/ destinations \in Catalogs /\ app = NotStarted
       \/ destinations = <<>> /\ app = [NotStarted EXCEPT !.shape = "list"]

\* self.destinations.items() raises AttributeError on an object that is not a mapping
items_raises(shape) == shape # "mapping"

\* AIRecommender(DESTINATIONS) up to the end of _prepare_corpus; an exception
\* is caught by the except branch, which prints the failure
startup_prepare ==
    /\ app.stage = "import"
    /\ IF items_raises(app.shape)
       THEN /\ app' = [app EXCEPT !.stage = "failed", !.attempts = @ + 1, !.reports = @ + 1]
            /\ UNCHANGED <<corpus, doc_ids>>
       ELSE /\ app' = [app EXCEPT !.stage = "prepared", !.attempts = @ + 1]
            /\ corpus' = _prepare_corpus(destinations).corpus
            /\ doc_ids' = _prepare_corpus(destinations).doc_ids
    /\ UNCHANGED <<destinations, idf, tf_vectors, doc_norms, pc, result, rebuilt, threads, site>>

\* the rest of __init__: _compute_tfidf
startup_compute ==
    /\ app.stage = "prepared"
    /\ LET computed == _compute_tfidf(corpus, doc_ids)
       IN  /\ idf' = computed.idf
           /\ tf_vectors' = computed.tf_vectors
           /\ doc_norms' = computed.doc_norms
    /\ pc' = "ready"
    /\ result' = [NoCall EXCEPT !.op = "__init__"]
    /\ app' = [app EXCEPT !.stage = "computed"]
    /\ UNCHANGED <<destinations, corpus, doc_ids, rebuilt, threads, site>>

\* variant of startup_assign: the handle is bound before _compute_tfidf has run
startup_assign_early ==
    /\ app.stage = "prepared"
    /\ app.handle = "None"
    /\ app' = [app EXCEPT !.handle = "instance"]
    /\ UNCHANGED <<index, pc, result, rebuilt, threads, site>>

\* ai_recommender = <the constructed instance>
startup_assign ==
    /\ app.stage = "computed"
    /\ app' = [app EXCEPT !.handle = "instance", !.stage = "running"]
    /\ UNCHANGED <<index, pc, result, rebuilt, threads, site>>

\* variant of api_ai_recommend: a missing recommender is constructed again on
\* every request, and the failure printed again
api_ai_recommend_retrying(query) ==
    /\ app.stage \in {"running", "failed"}
    /\ app' =
          IF query = <<>>
          THEN [app EXCEPT !.response = [ op |-> "api_ai_recommend", query |-> query,
                                          via |-> "empty query", status |-> "ok",
                                          value |-> <<>> ]]
          ELSE IF app.handle # "None"
          THEN LET out == recommend_outcome(destinations, idf, tf_vectors, doc_norms,
                                            query, DefaultTopK)
               IN  [app EXCEPT !.response = [ op |-> "api_ai_recommend", query |-> query,
                                              via |-> "recommend", status |-> out.status,
                                              value |-> out.value ]]
          ELSE [app EXCEPT !.attempts = @ + 1, !.reports = @ + 1,
                           !.response = [ op |-> "api_ai_recommend", query |-> query,
                                          via |-> "no recommender", status |-> "ok",
                                          value |-> <<>> ]]
    /\ UNCHANGED <<index, pc, result, rebuilt, threads, site>>

\* POST /api/ai-recommend with a JSON object; query is data.get('query', '').
\* The route is served once the module has been imported.
api_ai_recommend(query) ==
    /\ app.stage \in {"running", "failed"}
    /\ app' = [app EXCEPT !.response =
          IF query = <<>>
          THEN [ op |-> "api_ai_recommend", query |-> query, via |-> "empty query",
                 status |-> "ok", value |-> <<>> ]
          ELSE IF app.handle # "None"
          THEN LET out == recommend_outcome(destinations, idf, tf_vectors, doc_norms,
                                            query, DefaultTopK)
               IN  [ op |-> "api_ai_recommend", query |-> query, via |-> "recommend",
                     status |-> out.status, value |-> out.value ]
          ELSE [ op |-> "api_ai_recommend", query |-> query, via |-> "no recommender",
                 status |-> "ok", value |-> <<>> ]]
    /\ UNCHANGED <<index, pc, result, rebuilt, threads, site>>

NextApp ==
    \/ startup_prepare
    \/ startup_compute
    \/ startup_assign
    \/ \E query \in Queries : api_ai_recommend(query)

SpecApp == InitApp /\ [][NextApp]_vars

\* C15: when construction from a catalog that is not a mapping has failed,
\* the failure has been printed once, during startup, and stays printed
\* once; construction has been attempted once; and every query request
\* since then was answered with an empty list without raising.
C15_FailureOnceAtStartup ==
    app.shape # "mapping" =>
        /\ app.stage \in {"import", "failed"}
        /\ app.stage = "import" => app.reports = 0 /\ app.attempts = 0
        /\ app.stage = "failed" =>
              /\ app.reports = 1
              /\ app.attempts = 1
              /\ app.handle = "None"
              /\ app.response.op = "api_ai_recommend" =>
                    /\ app.response.status = "ok"
                    /\ app.response.value = <<>>

\* a query with signal was requested after construction had failed
C15_Witness ==
    /\ app.stage = "failed"
    /\ app.response.op = "api_ai_recommend"
    /\ app.response.query = QuerySea
    /\ app.response.via = "no recommender"

\* C18: construction is attempted once per process; the handle is non-null
\* only when corpus preparation and TF-IDF computation have both completed;
\* a query answered by the recommender saw the complete index; and a query
\* handled while the handle is null got an empty list and no recommend call.
C18_BuiltOnceBeforeHandle ==
    /\ app.attempts <= 1
    /\ app.stage # "import" => app.attempts = 1
    /\ app.handle # "None" =>
          LET prepared == _prepare_corpus(destinations)
              computed == _compute_tfidf(prepared.corpus, prepared.doc_ids)
          IN  /\ pc = "ready"
              /\ corpus = prepared.corpus
              /\ doc_ids = prepared.doc_ids
              /\ idf = computed.idf
              /\ tf_vectors = computed.tf_vectors
              /\ doc_norms = computed.doc_norms
    /\ app.response.via = "recommend" => app.handle # "None"
    /\ (app.response.op = "api_ai_recommend" /\ app.handle = "None") =>
          /\ app.response.via \in {"empty query", "no recommender"}
          /\ app.response.status = "ok"
          /\ app.response.value = <<>>

\* the handle is bound and a query was answered from the index with results
C18_Witness ==
    /\ app.handle = "instance"
    /\ app.attempts = 1
    /\ app.response.via = "recommend"
    /\ app.response.status = "ok"
    /\ app.response.value # <<>>

\* ------------------------------------------------------------------------
\* Properties of the index values
\* ------------------------------------------------------------------------

\* e^x in FixScale units, by its power series
RECURSIVE ExpSeries(_, _, _)
ExpSeries(x, term, k) ==
    IF term = 0 THEN 0
    ELSE term + ExpSeries(x, (term * x) \div (k * FixScale), k + 1)

Exp(x) == ExpSeries(x, FixScale, 1)

Abs(x) == IF x < 0 THEN 0 - x ELSE x

\* the catalog entries in which token t occurs, in whatever field
DocsWith(t) == { i \in DOMAIN destinations : t \in EntryTokens(destinations[i][2]) }

\* C21: for every term of the vocabulary, with N the corpus size and df the
\* number of catalog entries whose document holds the term (each counted
\* once), 1 <= df <= N and the stored idf is ln(1 + N/(df+1)): its
\* exponential is 1 + N/(df+1) within 0.002, the precision of the arithmetic.
\* The idf
\* is strictly positive, and a term with smaller df has a strictly larger idf.
C21_SmoothedIdf ==
    pc = "ready" =>
        LET N == Len(corpus)
        IN  \A t \in DOMAIN idf :
                LET df == Cardinality(DocsWith(t))
                IN  /\ 1 <= df /\ df <= N
                    /\ idf[t] = log1p_ratio(N, df + 1)
                    /\ Abs(Exp(idf[t]) * (df + 1) - (df + 1 + N) * FixScale)
                          <= 20 * (df + 1)
                    /\ idf[t] > 0
                    /\ \A u \in DOMAIN idf :
                          Cardinality(DocsWith(u)) < df => idf[u] > idf[t]

\* a term that occurs in every document of a corpus of two or more, several
\* times in one of them, beside a term found in fewer documents
C21_Witness ==
    /\ pc = "ready"
    /\ Len(corpus) >= 2
    /\ \E t, u \in DOMAIN idf :
          /\ Cardinality(DocsWith(t)) = Len(corpus)
          /\ \E i \in DOMAIN corpus : Occ(t, corpus[i]) >= 2
          /\ Cardinality(DocsWith(u)) < Len(corpus)
          /\ idf[u] > idf[t]

\* count / total_token_count, in FixScale units
TermFrequency(t, text) ==
    LET n == Len(_tokenize(text))
    IN  (Occ(t, text) * FixScale) \div (IF n = 0 THEN 1 ELSE n)

\* C22: the vector of every document has exactly the distinct tokens of the
\* document for keys; the entry of token t is (count of t / total token
\* count) * idf(t); every entry is strictly positive; the counts of a
\* non-empty document add up to its total, so its term frequencies sum to 1;
\* an empty document has the empty vector.
C22_DocumentVectors ==
    pc = "ready" =>
        /\ Len(tf_vectors) = Len(corpus)
        /\ \A i \in DOMAIN corpus :
              LET vec    == tf_vectors[i][2]
                  tokens == _tokenize(corpus[i])
              IN  /\ tf_vectors[i][1] = doc_ids[i]
                  /\ DOMAIN vec = Range(tokens)
                  /\ DOMAIN vec = EntryTokens(destinations[i][2])
                  /\ \A t \in DOMAIN vec :
                        /\ vec[t] = (TermFrequency(t, corpus[i]) * idf[t]) \div FixScale
                        /\ vec[t] > 0
                  /\ tokens # <<>> =>
                        /\ SumOver([t \in Range(tokens) |-> Occ(t, corpus[i])], Range(tokens))
                              = Len(tokens)
                        /\ LET total == SumOver([t \in Range(tokens) |->
                                                    TermFrequency(t, corpus[i])],
                                                Range(tokens))
                           IN  /\ total <= FixScale
                               /\ total > FixScale - Cardinality(Range(tokens))
                  /\ tokens = <<>> => vec = <<>>

\* a catalog with an empty document and a document that repeats one of its
\* two or more distinct tokens
C22_Witness ==
    /\ pc = "ready"
    /\ \E i \in DOMAIN corpus : _tokenize(corpus[i]) = <<>> /\ tf_vectors[i][2] = <<>>
    /\ \E i \in DOMAIN corpus :
          /\ Cardinality(DOMAIN tf_vectors[i][2]) >= 2
          /\ \E t \in DOMAIN tf_vectors[i][2] :
                Occ(t, corpus[i]) >= 2 /\ Occ(t, corpus[i]) < Len(_tokenize(corpus[i]))

\* the ids of the documents whose stored norm is zero
ZeroNormIds == { doc_norms[i][1] : i \in { j \in DOMAIN doc_norms : doc_norms[j][2] = 0 } }

\* C23: the stored norm of a document is zero exactly when the document has
\* no tokens; no recommend call raises ZeroDivisionError, whatever the query
\* and top_k; and a document with zero norm is never among the results.
C23_ZeroNormGuard ==
    pc = "ready" =>
        /\ Len(doc_norms) = Len(corpus)
        /\ \A i \in DOMAIN corpus :
              /\ doc_norms[i][1] = doc_ids[i]
              /\ doc_norms[i][2] >= 0
              /\ doc_norms[i][2] = 0 <=> _tokenize(corpus[i]) = <<>>
        /\ result.op = "recommend" =>
              /\ result.status # "ZeroDivisionError"
              /\ \A k \in DOMAIN result.value : result.value[k].id \notin ZeroNormIds

\* a query with signal whose top_k covers the whole catalog, zero-norm
\* document included, returned the other documents
C23_Witness ==
    /\ Returned("recommend")
    /\ ZeroNormIds # {}
    /\ result.top_k >= Len(destinations)
    /\ result.value # <<>>

\* texts made of stop-words and of tokens no catalog holds
Paddings ==
    { w_zzz, w_the, join(<<w_zzz, w_the, w_zzz>>), join(<<w_of, w_zzz>>) }

\* the query with a padding appended, and with it put in front
Padded(query) ==
    { join(<<query, p>>) : p \in Paddings } \cup { join(<<p, query>>) : p \in Paddings }

\* distance kept from the threshold and between similarities: 0.001
SimMargin == SimScale \div 1000

\* no similarity of the recorded call is so close to the threshold, and no two
\* are so close to each other, that a rounding error decides the outcome
ClearOfRounding ==
    \A i \in DOMAIN destinations :
        LET a == SimilarityOf(destinations[i][1])
        IN  /\ Abs(a - threshold) > SimMargin
            /\ \A j \in DOMAIN destinations :
                  LET b == SimilarityOf(destinations[j][1])
                  IN  \/ Abs(a - b) > SimMargin
                      \/ a = 0 /\ b = 0
                      \/ DictGet(tf_vectors, destinations[i][1])
                            = DictGet(tf_vectors, destinations[j][1])

C26_DistinctCatalogIds ==
    (Returned("recommend") \/ Returned("get_suggestions")) =>
        /\ \A k \in DOMAIN result.value :
              \E i \in DOMAIN destinations : destinations[i][1] = result.value[k].id
        /\ \A k, m \in DOMAIN result.value :
              result.value[k].id = result.value[m].id => k = m

\* a query of two or more known terms that returned three or more documents
C26_Witness ==
    /\ Returned("recommend")
    /\ Cardinality(DOMAIN CallVec) >= 2
    /\ Len(result.value) >= 3

\* ---------------------------------------------------------------------------
\* Accounts and one-time passwords (modules/auth_module.py)
\* ---------------------------------------------------------------------------

UpperCase == DOMAIN UpperToLower

\* the class [!@#$%^&*(),.?":{}|<>] of validate_password_strength
SpecialChars ==
    {"!","@","#","$","%","^","&","*","(",")",",",".","?","\"",":","{","}","|","<",">"}

PASSWORD_MIN_LENGTH == 8

\* re.search of a character class
search(class, password) == \E i \in 1..Len(password) : password[i] \in class

\* validate_password_strength(password)[0]: no rule of the five is broken
validate_password_strength(password) ==
    /\ ~ (Len(password) < PASSWORD_MIN_LENGTH)
    /\ search(UpperCase, password)
    /\ search(LowerCase, password)
    /\ search(Digits, password)
    /\ search(SpecialChars, password)

\* generate_password_hash: the method tag and the password the hash was made from
\* (the salt changes the text of the hash, not which password it accepts)
hash_password(password) == <<"pbkdf2:sha256", password>>

verify_password(password, password_hash) ==
    /\ Len(password_hash) = 2
    /\ password_hash[2] = password

\* the clock counts minutes
OTP_EXPIRY_MINUTES == 10

get_otp_expiry(now) == now + OTP_EXPIRY_MINUTES

is_otp_valid(stored_otp, stored_expiry, provided_otp, now) ==
    IF stored_otp = "NULL" \/ stored_expiry = NullTime THEN FALSE
    ELSE IF now > stored_expiry THEN FALSE
    ELSE stored_otp = provided_otp

\* SELECT ... WHERE email = %s OR username = %s, fetchone(): the row's key or "none"
fetch_user(users, identifier) ==
    IF identifier \in Accounts /\ users[identifier].exists THEN identifier ELSE "none"

\* UPDATE users SET otp_code = %s, otp_expiry = %s WHERE id = %s
store_otp(users, id, otp, otp_expiry, issuer) ==
    [users EXCEPT ![id].otp_code = otp, ![id].otp_expiry = otp_expiry,
                  ![id].otp_issuer = issuer]

\* UPDATE users SET otp_code = NULL, otp_expiry = NULL WHERE id = %s
clear_otp(users, id) ==
    [users EXCEPT ![id].otp_code = "NULL", ![id].otp_expiry = NullTime,
                  ![id].otp_issuer = "none"]

\* what a function of the module returns, with the users table it leaves
Return(success, message, users) ==
    [ success |-> success, message |-> message, users |-> users ]

create_user_outcome(users, now, connected, username, password, otp) ==
    IF ~ connected THEN Return(FALSE, "Database connection failed", users)
    ELSE IF users[username].exists THEN Return(FALSE, "Username already exists", users)
    ELSE Return(TRUE, otp,
                [users EXCEPT ![username] =
                    [ exists |-> TRUE, is_verified |-> FALSE,
                      password_hash |-> hash_password(password),
                      otp_code |-> otp, otp_expiry |-> get_otp_expiry(now),
                      otp_issuer |-> "create_user", remember_token |-> 0 ]])

verify_user_otp_outcome(users, now, connected, identifier, otp) ==
    LET user == fetch_user(users, identifier) IN
    IF ~ connected THEN Return(FALSE, "Database connection failed", users)
    ELSE IF user = "none" THEN Return(FALSE, "User not found", users)
    ELSE IF users[user].is_verified THEN Return(TRUE, "Already verified", users)
    ELSE IF ~ is_otp_valid(users[user].otp_code, users[user].otp_expiry, otp, now)
         THEN Return(FALSE, "Invalid or expired OTP", users)
    ELSE Return(TRUE, "Account verified successfully",
                [clear_otp(users, user) EXCEPT ![user].is_verified = TRUE])

authenticate_user_outcome(users, now, connected, identifier, password, otp) ==
    LET user == fetch_user(users, identifier) IN
    IF ~ connected THEN Return(FALSE, "Database connection failed", users)
    ELSE IF user = "none" THEN Return(FALSE, "Invalid credentials", users)
    ELSE IF ~ verify_password(password, users[user].password_hash)
         THEN Return(FALSE, "Invalid credentials", users)
    ELSE IF ~ users[user].is_verified THEN Return(FALSE, "Account not verified", users)
    ELSE Return(TRUE, "Credentials valid. OTP sent.",
                store_otp(users, user, otp, get_otp_expiry(now), "authenticate_user"))

\* SELECT otp_code, otp_expiry FROM users WHERE id = %s
fetch_by_id(users, user_id) ==
    IF user_id \in Accounts /\ users[user_id].exists THEN user_id ELSE "none"

verify_login_otp_outcome_keeping_otp(users, now, connected, user_id, otp) ==
    LET user == fetch_by_id(users, user_id) IN
    IF ~ connected THEN Return(FALSE, "Database connection failed", users)
    ELSE IF user = "none" THEN Return(FALSE, "User not found", users)
    ELSE IF ~ is_otp_valid(users[user].otp_code, users[user].otp_expiry, otp, now)
         THEN Return(FALSE, "Invalid or expired OTP", users)
    ELSE Return(TRUE, "Login successful", users)

verify_login_otp_outcome(users, now, connected, user_id, otp) ==
    LET user == fetch_by_id(users, user_id) IN
    IF ~ connected THEN Return(FALSE, "Database connection failed", users)
    ELSE IF user = "none" THEN Return(FALSE, "User not found", users)
    ELSE IF ~ is_otp_valid(users[user].otp_code, users[user].otp_expiry, otp, now)
         THEN Return(FALSE, "Invalid or expired OTP", users)
    ELSE Return(TRUE, "Login successful", clear_otp(users, user))

request_password_reset_outcome(users, now, connected, identifier, otp) ==
    LET user == fetch_user(users, identifier) IN
    IF ~ connected THEN Return(FALSE, "Database connection failed", users)
    ELSE IF user = "none" THEN Return(FALSE, "Account not found", users)
    ELSE Return(TRUE, "OTP generated for password reset",
                store_otp(users, user, otp, get_otp_expiry(now), "request_password_reset"))

reset_password_outcome(users, now, connected, identifier, otp, new_password) ==
    LET user == fetch_user(users, identifier) IN
    IF ~ connected THEN Return(FALSE, "Database connection failed", users)
    ELSE IF user = "none" THEN Return(FALSE, "Account not found", users)
    ELSE IF ~ is_otp_valid(users[user].otp_code, users[user].otp_expiry, otp, now)
         THEN Return(FALSE, "Invalid or expired OTP", users)
    ELSE IF ~ validate_password_strength(new_password)
         THEN Return(FALSE, "Password too weak", users)
    ELSE Return(TRUE, "Password reset successfully",
                [clear_otp(users, user) EXCEPT
                    ![user].password_hash = hash_password(new_password)])

resend_otp_outcome(users, now, connected, identifier, otp) ==
    LET user == fetch_user(users, identifier) IN
    IF ~ connected THEN Return(FALSE, "Database connection failed", users)
    ELSE IF user = "none" THEN Return(FALSE, "Account not found", users)
    ELSE Return(TRUE, "OTP resent",
                store_otp(users, user, otp, get_otp_expiry(now), "resend_otp"))

\* --- the calls of the module, one action per function --------------------------

\* what generate_otp can draw
Codes == { "111111", "222222" }

PasswordA == <<"T","r","a","v","e","l","1","!">>

PasswordB == <<"G","r","e","e","n","e","r","2","#">>

PasswordWeak == <<"t","r","a","v","e","l">>

Passwords == { PasswordA, PasswordB, PasswordWeak }

\* identifiers a caller can give: the accounts and one that is never registered
Identifiers == Accounts \cup { "nobody" }

MaxClock == 2

RowOf(users, identifier) ==
    IF identifier \in Accounts THEN users[identifier] ELSE NoUser

\* the record of a call that presented no remember_token cookie
Call(op, outcome, account, otp, before) ==
    [ op |-> op, outcome |-> outcome, account |-> account, otp |-> otp,
      before |-> before, token |-> <<0, "issued">>, pending |-> "none" ]

Issued(r) == IF r.success THEN "issued" ELSE "rejected"

Accepted(r) ==
    IF ~ r.success THEN "rejected"
    ELSE IF r.message = "Already verified" THEN "already verified"
    ELSE "accepted"

\* datetime.now() moves on by the lifetime of an OTP, at most MaxClock times
tick ==
    /\ site.now < MaxClock * OTP_EXPIRY_MINUTES
    /\ site' = [site EXCEPT !.now = site.now + OTP_EXPIRY_MINUTES]
    /\ UNCHANGED <<index, pc, result, rebuilt, threads, app>>

create_user(username, password) ==
    \E otp \in Codes, connected \in BOOLEAN :
        LET r == create_user_outcome(site.users, site.now, connected, username, password, otp) IN
        /\ site' = [site EXCEPT !.users = r.users,
                                !.last = Call("create_user", Issued(r), username, "none", NoUser)]
        /\ UNCHANGED <<index, pc, result, rebuilt, threads, app>>

verify_user_otp(identifier, otp) ==
    \E connected \in BOOLEAN :
        LET r == verify_user_otp_outcome(site.users, site.now, connected, identifier, otp) IN
        /\ site' = [site EXCEPT !.users = r.users,
                                !.last = Call("verify_user_otp", Accepted(r), identifier, otp,
                                              RowOf(site.users, identifier))]
        /\ UNCHANGED <<index, pc, result, rebuilt, threads, app>>

authenticate_user(identifier, password) ==
    \E otp \in Codes, connected \in BOOLEAN :
        LET r == authenticate_user_outcome(site.users, site.now, connected, identifier, password, otp) IN
        /\ site' = [site EXCEPT !.users = r.users,
                                !.last = Call("authenticate_user", Issued(r), identifier, "none", NoUser)]
        /\ UNCHANGED <<index, pc, result, rebuilt, threads, app>>

verify_login_otp(user_id, otp) ==
    \E connected \in BOOLEAN :
        LET r == verify_login_otp_outcome(site.users, site.now, connected, user_id, otp) IN
        /\ site' = [site EXCEPT !.users = r.users,
                                !.last = Call("verify_login_otp", Accepted(r), user_id, otp,
                                              RowOf(site.users, user_id))]
        /\ UNCHANGED <<index, pc, result, rebuilt, threads, app>>

request_password_reset(identifier) ==
    \E otp \in Codes, connected \in BOOLEAN :
        LET r == request_password_reset_outcome(site.users, site.now, connected, identifier, otp) IN
        /\ site' = [site EXCEPT !.users = r.users,
                                !.last = Call("request_password_reset", Issued(r), identifier, "none", NoUser)]
        /\ UNCHANGED <<index, pc, result, rebuilt, threads, app>>

reset_password(identifier, otp, new_password) ==
    \E connected \in BOOLEAN :
        LET r == reset_password_outcome(site.users, site.now, connected, identifier, otp, new_password) IN
        /\ site' = [site EXCEPT !.users = r.users,
                                !.last = Call("reset_password", Accepted(r), identifier, otp,
                                              RowOf(site.users, identifier))]
        /\ UNCHANGED <<index, pc, result, rebuilt, threads, app>>

resend_otp(identifier) ==
    \E otp \in Codes, connected \in BOOLEAN :
        LET r == resend_otp_outcome(site.users, site.now, connected, identifier, otp) IN
        /\ site' = [site EXCEPT !.users = r.users,
                                !.last = Call("resend_otp", Issued(r), identifier, "none", NoUser)]
        /\ UNCHANGED <<index, pc, result, rebuilt, threads, app>>

\* the callers of this specification all speak of one account, or of none
Callers == { "alice", "nobody" }

NextOtp ==
    \/ tick
    \/ \E username \in Callers \cap Accounts, password \in Passwords :
          create_user(username, password)
    \/ \E identifier \in Callers, otp \in Codes : verify_user_otp(identifier, otp)
    \/ \E identifier \in Callers, password \in Passwords : authenticate_user(identifier, password)
    \/ \E user_id \in Callers, otp \in Codes : verify_login_otp(user_id, otp)
    \/ \E identifier \in Callers : request_password_reset(identifier)
    \/ \E identifier \in Callers, otp \in Codes, new_password \in Passwords :
          reset_password(identifier, otp, new_password)
    \/ \E identifier \in Callers : resend_otp(identifier)

\* the site as it starts: no account, no session, the catalog of the running app
InitAuth ==
    /\ Init
    /\ destinations = CatalogTwoTopics

SpecOtp == InitAuth /\ [][NextOtp]_vars

\* the calls that check a presented OTP against the stored one
Verifiers == { "verify_user_otp", "verify_login_otp", "reset_password" }

\* C24: a one-time password is single-use.  Once verify_user_otp, verify_login_otp
\* or reset_password has accepted an OTP for a user, that user's stored otp_code
\* and otp_expiry are null; a verify_login_otp or reset_password call made while
\* they are null (that is, until a new OTP is issued for that user) is rejected
\* whatever code it presents, the code just accepted included; and a failed
\* verification leaves the stored OTP as it was.
C24_SingleUse ==
    LET l == site.last IN
    /\ (l.op \in Verifiers /\ l.outcome = "accepted") =>
          /\ site.users[l.account].otp_code = "NULL"
          /\ site.users[l.account].otp_expiry = NullTime
          /\ l.before.otp_code = l.otp
    /\ (l.op \in { "verify_login_otp", "reset_password" } /\ l.before.otp_code = "NULL") =>
          l.outcome = "rejected"
    /\ (l.op \in Verifiers /\ l.outcome = "rejected" /\ l.account \in Accounts) =>
          /\ site.users[l.account].otp_code = l.before.otp_code
          /\ site.users[l.account].otp_expiry = l.before.otp_expiry

\* verify_login_otp has just accepted the login OTP of a verified account
C24_Witness ==
    /\ site.last.op = "verify_login_otp"
    /\ site.last.outcome = "accepted"
    /\ site.last.before.otp_issuer = "authenticate_user"
    /\ site.last.before.otp_code = site.last.otp
    /\ site.users[site.last.account].is_verified

\* C30: reset_password changes a password only when the OTP presented was issued
\* by request_password_reset for that account; an OTP issued by create_user,
\* authenticate_user or resend_otp never authorizes a password change; and a
\* rejected reset leaves password_hash and the stored OTP unchanged.
C30_ResetOtpOnly ==
    LET l == site.last IN
    /\ (l.op = "reset_password" /\ l.outcome = "accepted") =>
          l.before.otp_issuer = "request_password_reset"
    /\ (l.op = "reset_password" /\ l.outcome = "rejected" /\ l.account \in Accounts) =>
          /\ site.users[l.account].password_hash = l.before.password_hash
          /\ site.users[l.account].otp_code = l.before.otp_code
          /\ site.users[l.account].otp_expiry = l.before.otp_expiry

\* ---------------------------------------------------------------------------
\* Sessions, remember-me and the request filter (app.py)
\* ---------------------------------------------------------------------------

MaxTokens == 1

\* a remember_token cookie: which token_urlsafe value it is (0: no cookie) and
\* whether its letters have the case the server issued
Cases == { "issued", "recased" }

Cookies == (0..MaxTokens) \X Cases

\* `remember_token = %s` on a column of collation utf8mb4_unicode_ci: NULL equals
\* nothing, and letter case is not compared
sql_eq(stored, cookie) ==
    /\ stored # 0
    /\ cookie[1] = stored

set_remember_token(users, connected, user_id, token) ==
    IF ~ connected THEN users
    ELSE [users EXCEPT ![user_id].remember_token = token]

\* fetchone() of the SELECT: the verified row holding the token, or "none"
get_user_by_remember_token(users, connected, token) ==
    LET rows == { a \in Accounts : /\ users[a].exists
                                   /\ sql_eq(users[a].remember_token, token)
                                   /\ users[a].is_verified } IN
    IF ~ connected \/ rows = {} THEN "none" ELSE CHOOSE a \in rows : TRUE

clear_remember_token(users, connected, user_id) ==
    IF ~ connected THEN users
    ELSE [users EXCEPT ![user_id].remember_token = 0]

\* the record of a request of one browser
Request(op, outcome, account, otp, before, token, pending) ==
    [ op |-> op, outcome |-> outcome, account |-> account, otp |-> otp,
      before |-> before, token |-> token, pending |-> pending ]

NoCookie == <<0, "issued">>

\* the record of a request of which only the route and the outcome are kept
Plain(op, outcome) == Request(op, outcome, "none", "none", NoUser, NoCookie, "none")

signup(b, username, password, confirm_password) ==
    \E otp \in Codes, connected \in BOOLEAN :
        LET r == create_user_outcome(site.users, site.now, connected, username, password, otp)
            refused == \/ site.sessions[b].user_id # "none"
                       \/ password # confirm_password
                       \/ ~ validate_password_strength(password)
        IN
        /\ site' = [site EXCEPT
                      !.users = IF refused THEN @ ELSE r.users,
                      !.last = Plain("signup", IF refused THEN "rejected" ELSE Issued(r))]
        /\ UNCHANGED <<index, pc, result, rebuilt, threads, app>>

verify_signup(b, identifier, otp) ==
    \E connected \in BOOLEAN :
        LET r == verify_user_otp_outcome(site.users, site.now, connected, identifier, otp) IN
        /\ site' = [site EXCEPT
                      !.users = r.users,
                      !.last = Plain("verify_signup", Accepted(r))]
        /\ UNCHANGED <<index, pc, result, rebuilt, threads, app>>

signin(b, identifier, password, remember_me) ==
    \E otp \in Codes, connected \in BOOLEAN :
        LET r == authenticate_user_outcome(site.users, site.now, connected, identifier, password, otp)
            redirected == site.sessions[b].user_id # "none"
        IN
        /\ site' = [site EXCEPT
                      !.users = IF redirected THEN @ ELSE r.users,
                      !.sessions[b] =
                          IF redirected \/ ~ r.success THEN @
                          ELSE [@ EXCEPT !.pending_login = fetch_user(site.users, identifier),
                                         !.remember_me = remember_me],
                      !.last = Plain("signin", IF redirected THEN "rejected" ELSE Issued(r))]
        /\ UNCHANGED <<index, pc, result, rebuilt, threads, app>>

\* the session verify_signin leaves when verify_login_otp succeeded
logged_in(session, user_id) ==
    [ user_id |-> session.pending_login, pending_login |-> "none", remember_me |-> FALSE ]

verify_signin(b, user_id, otp) ==
    \E connected \in BOOLEAN, connected_again \in BOOLEAN :
        LET session == site.sessions[b]
            pending == session.pending_login
            expired == user_id = "" \/ pending = "none"
            r == verify_login_otp_outcome(site.users, site.now, connected, user_id, otp)
            success == ~ expired /\ r.success
            remember == success /\ session.remember_me
            token == site.tokens + 1
        IN
        /\ remember => site.tokens < MaxTokens
        /\ site' = [site EXCEPT
                      !.users = IF expired THEN @
                                ELSE IF remember
                                     THEN set_remember_token(r.users, connected_again, pending, token)
                                ELSE r.users,
                      !.sessions[b] = IF success THEN logged_in(session, user_id) ELSE @,
                      !.tokens = IF remember THEN token ELSE @,
                      !.revoked = IF remember THEN { t \in @ : t[2] # pending } ELSE @,
                      !.last = IF success
                               THEN Request("verify_signin", "accepted", user_id, otp,
                                            RowOf(site.users, pending), NoCookie, pending)
                               ELSE Plain("verify_signin", "rejected")]
        /\ UNCHANGED <<index, pc, result, rebuilt, threads, app>>

api_resend_otp(identifier) ==
    \E otp \in Codes, connected \in BOOLEAN :
        LET r == resend_otp_outcome(site.users, site.now, connected, identifier, otp) IN
        /\ site' = [site EXCEPT
                      !.users = r.users,
                      !.last = Plain("api_resend_otp", Issued(r))]
        /\ UNCHANGED <<index, pc, result, rebuilt, threads, app>>

logout(b) ==
    \E connected \in BOOLEAN :
        LET user_id == site.sessions[b].user_id
            stored == IF user_id = "none" THEN 0 ELSE site.users[user_id].remember_token
        IN
        /\ site' = [site EXCEPT
                      !.users = IF user_id = "none" THEN @
                                ELSE clear_remember_token(@, connected, user_id),
                      !.sessions[b] = NoSession,
                      !.revoked = IF stored = 0 THEN @ ELSE @ \cup { <<stored, user_id>> },
                      !.last = Plain("logout", IF user_id = "none" THEN "anonymous" ELSE "logged out")]
        /\ UNCHANGED <<index, pc, result, rebuilt, threads, app>>

\* the user the filter finds for a sessionless request that presents a cookie
remembered_user(users, connected, remember_token) ==
    IF remember_token[1] = 0 THEN "none"
    ELSE get_user_by_remember_token(users, connected, remember_token)

\* a request to a non-public endpoint: the before_request filter, then the handler
check_authentication(b, remember_token) ==
    \E connected \in BOOLEAN :
        LET session == site.sessions[b]
            user == remembered_user(site.users, connected, remember_token)
            outcome == IF session.user_id # "none" THEN "handler"
                       ELSE IF user # "none" THEN "remembered"
                       ELSE "redirected"
        IN
        /\ site' = [site EXCEPT
                      !.sessions[b] = IF outcome = "remembered" THEN [@ EXCEPT !.user_id = user]
                                      ELSE @,
                      !.last = Request("check_authentication", outcome,
                                       IF outcome = "remembered" THEN user ELSE session.user_id,
                                       "none", NoUser,
                                       IF outcome = "remembered" THEN remember_token ELSE NoCookie,
                                       "none")]
        /\ UNCHANGED <<index, pc, result, rebuilt, threads, app>>

\* what the user_id field of the OTP form can hold
FormUserIds == Accounts \cup { "" }

SignupPasswords == { PasswordA, PasswordWeak }

\* the browser that fills in the forms; the other one only asks for pages
FormBrowsers == { "b1" }

NextAuth ==
    \/ \E b \in FormBrowsers, username \in Accounts,
          password \in SignupPasswords, confirm_password \in SignupPasswords :
          signup(b, username, password, confirm_password)
    \/ \E b \in FormBrowsers, identifier \in Identifiers, otp \in Codes :
          verify_signup(b, identifier, otp)
    \/ \E b \in FormBrowsers, identifier \in Identifiers, password \in SignupPasswords,
          remember_me \in BOOLEAN :
          signin(b, identifier, password, remember_me)
    \/ \E b \in FormBrowsers, user_id \in FormUserIds, otp \in Codes :
          verify_signin(b, user_id, otp)
    \/ \E identifier \in Identifiers : api_resend_otp(identifier)
    \/ \E b \in Browsers : logout(b)
    \/ \E b \in Browsers, remember_token \in Cookies : check_authentication(b, remember_token)

SpecAuth == InitAuth /\ [][NextAuth]_vars

\* C27: verify_signin establishes a logged-in session for user U only if the OTP
\* submitted matches the unexpired OTP stored for U itself, the account that
\* passed the password check and is held in pending_login; an OTP that is valid
\* for a different account never completes U's login.
C27_OtpOfPendingAccount ==
    LET l == site.last IN
    (l.op = "verify_signin" /\ l.outcome = "accepted") =>
        is_otp_valid(l.before.otp_code, l.before.otp_expiry, l.otp, site.now)

\* the cookie is, letter for letter, the token stored in the row
SameToken(stored, cookie) ==
    /\ stored # 0
    /\ cookie = <<stored, "issued">>

\* C28: the handler of a non-public endpoint runs only for a request whose
\* session holds a user_id; a session acquires a user_id only through a successful
\* verify_signin or through a remember_token equal to the token stored for a
\* verified user; and no unverified account ever obtains a session.
C28_SessionsOnlyByLoginOrToken ==
    LET l == site.last IN
    /\ \A b \in Browsers :
          site.sessions[b].user_id # "none" => site.users[site.sessions[b].user_id].is_verified
    /\ (l.op = "check_authentication" /\ l.outcome \in { "handler", "remembered" }) =>
          \E b \in Browsers : site.sessions[b].user_id # "none"
    /\ (l.op = "check_authentication" /\ l.outcome = "remembered") =>
          /\ site.users[l.account].is_verified
          /\ SameToken(site.users[l.account].remember_token, l.token)

\* C29: after a logged-in user has logged out, the remember token that was stored
\* for that user grants no session to a request presenting it, until that user
\* completes a new remember-me login.
C29_LoggedOutTokenRefused ==
    LET l == site.last IN
    (l.op = "check_authentication" /\ l.outcome = "remembered") =>
        \A t \in site.revoked : l.token # <<t[1], "issued">>

============================================================================
